---- MODULE Spec2Model ----
(***************************************************************************)
(* Model of the html2pdf API gateway: the session-token service            *)
(* (AuthService), the usage counters (RedisService, QuotaService) and the  *)
(* billable request path (PdfProxyService, UsageService), and the API key  *)
(* service (ApiKeysService).                                               *)
(*                                                                         *)
(* Every await of the source is a step of its own: a request handler is a  *)
(* process with a program counter, and the repository and the cache are    *)
(* shared state that other handlers change between two steps.              *)
(***************************************************************************)
EXTENDS Integers, FiniteSets, Sequences, TLC

(***************************************************************************)
(* Bounds of the model.                                                    *)
(***************************************************************************)
NumProcs == 2
MaxTicks == 2
MaxRows == 3
MaxResets == 1
MaxLimit == 2
MaxCalls == 3
MaxEvictions == 1
MaxPrior == 1
MaxKeys == 2
MaxKeyCalls == 4
MaxSignups == 1
MaxAdminCalls == 4

(***************************************************************************)
(* Program constants (seconds).                                            *)
(***************************************************************************)
JwtRefreshTokenExpiration == 604800
RefreshRowLifetime == 604800
PasswordResetLifetime == 3600
VerificationLifetime == 86400

Users == {"u1"}
Passwords == {"pwA", "pwB"}
Procs == 1..NumProcs

VARIABLES
  overlap,        \* whether calls may overlap (fixed by the specification)
  now,            \* the wall clock, in seconds
  ticks,          \* how often the clock has advanced
  userActive,     \* User.isActive
  userPassword,   \* the password User.passwordHash / User.salt verify
  refreshRows,    \* table refresh_tokens
  passwordResets, \* table password_resets
  pc,             \* where each in-flight AuthService call stands
  loc,            \* the locals of each in-flight AuthService call
  done,           \* history: the call that completed last, and its outcome
  successors,     \* history: <<old id, new id>> for every row a redemption inserted
  preReset,       \* history: ids of rows of sessions older than the last completed reset
  plan,           \* user.plan of the subject (dailyRequestLimit, monthlyRequestLimit)
  enforceDailyQuota,   \* ConfigService.enforceDailyQuota
  enforceMonthlyQuota, \* ConfigService.enforceMonthlyQuota
  cacheDaily,     \* Redis key quota:daily:<user>:<today>: {} when absent, else {n}
  cacheMonthly,   \* Redis key quota:monthly:<user>:<month>
  ledgerToday,    \* rows of table usage with userId = subject and date = today
  ledgerPrior,    \* rows of table usage of the subject from earlier days of the month
  qpc,            \* where each in-flight quota / conversion call stands
  qloc,           \* its locals
  quotaResult,    \* the QuotaCheck the last checkQuota call returned
  tally,          \* history: calls started, evictions, completed increments and requests
  cacheUp,        \* whether the Redis server answers commands
  quotaStatus,    \* what the last getQuotaStatus call returned
  apiKeys,        \* table api_keys
  enableSandboxKeys, \* ConfigService.enableSandboxKeys
  sandboxEnabled, \* Plan.sandboxEnabled of the subject's plan
  kpc,            \* where each in-flight ApiKeysService call stands
  kloc,           \* its locals
  kdone,          \* history: the ApiKeysService call that completed last, and its result
  createdKeys,    \* history: the raw keys create has returned
  everRevoked,    \* history: ids of keys a revoke or regenerate call has revoked
  keyCalls,       \* history: ApiKeysService calls started
  userExists,     \* whether table users holds a row with the subject's email
  isEmailVerified,        \* User.isEmailVerified
  enableEmailVerification, \* ConfigService.enableEmailVerification
  emailVerifications,     \* table email_verifications
  endedSessions,  \* history: refresh tokens of sessions POST /auth/logout has ended
  adminUsers,     \* rows of table users the admin endpoints address: role, isActive
  apc,            \* where each in-flight AdminService call stands
  aloc,           \* its locals: the user entity it loaded
  adminCalls      \* history: AdminService calls started

authVars == <<overlap, now, ticks, userActive, userPassword, refreshRows, passwordResets,
              pc, loc, done, successors, preReset>>

quotaVars == <<plan, enforceDailyQuota, enforceMonthlyQuota, cacheDaily, cacheMonthly,
               ledgerToday, ledgerPrior, qpc, qloc, quotaResult, tally, cacheUp,
               quotaStatus>>

keyVars == <<apiKeys, enableSandboxKeys, sandboxEnabled, kpc, kloc, kdone, createdKeys,
             everRevoked, keyCalls>>

acctVars == <<userExists, isEmailVerified, enableEmailVerification, emailVerifications,
              endedSessions>>

adminVars == <<adminUsers, apc, aloc, adminCalls>>

vars == <<authVars, quotaVars, keyVars, acctVars, adminVars>>

(***************************************************************************)
(* Tokens.  jwtService.sign(payload, {secret, expiresIn}) is HS256 over    *)
(* the payload plus iat = floor(now / 1000) and exp = iat + expiresIn: it  *)
(* has no jti and no randomness, so the token is a function of the subject *)
(* and of the second it is signed in.                                      *)
(***************************************************************************)
generateRefreshToken(u, t) == [sub |-> u, iat |-> t, sig |-> "valid"]

ForgedToken == [sub |-> "u1", iat |-> 0, sig |-> "forged"]
NoToken == [sub |-> "none", iat |-> 0, sig |-> "none"]

\* jwtService.verify: the signature, then exp against the clock.
JwtVerify(tok, t) ==
  /\ tok.sig = "valid"
  /\ t < tok.iat + JwtRefreshTokenExpiration

\* crypto.createHash("sha256").update(x).digest("hex"): injective on the tokens in play.
Sha256(tok) == [digest |-> tok]

NoRow == [id |-> 0, token |-> Sha256(NoToken), userId |-> "none", expiresAt |-> 0,
          isRevoked |-> FALSE, replacedByToken |-> {}]

\* refreshTokenRepository.create({token, userId, expiresAt}): entity defaults.
NewRefreshRow(id, h, u, t) ==
  [id |-> id, token |-> h, userId |-> u, expiresAt |-> t + RefreshRowLifetime,
   isRevoked |-> FALSE, replacedByToken |-> {}]

\* idx_refresh_tokens_token is unique: an INSERT of a token already stored fails.
DuplicateToken(h) == \E r \in refreshRows : r.token = h

\* refreshTokenRepository.save(entity) of a loaded entity: UPDATE ... WHERE id.
SaveRow(rows, e) == {r \in rows : r.id # e.id} \cup {e}

\* The primary key of the next row, and the raw tokens clients hold: rows are never
\* deleted, and every token handed out has its row.
nextRowId == Cardinality(refreshRows) + 1
issued == {r.token.digest : r \in refreshRows}

NoLoc == [tok |-> NoToken, row |-> NoRow, new |-> NoToken, reset |-> 0,
          pw |-> "pwA", uActive |-> FALSE, valid |-> FALSE,
          email |-> "none", uVerified |-> FALSE, verification |-> 0]

NoDone == [op |-> "none", outcome |-> "none", cause |-> "none", valid |-> FALSE,
           message |-> "none"]

\* A catch block that rethrows what it caught.
refreshTokensRethrow(cause) == cause

\* catch (error) { throw new UnauthorizedException("Invalid or expired refresh token") }
refreshTokensCatch(cause) == "Invalid or expired refresh token"

\* The message of the exception the caller receives: refreshTokens wraps its whole body
\* in the catch above, the other methods throw their own exceptions.
Thrown(op, outcome, cause) ==
  IF op = "refresh" /\ outcome # "ok" THEN refreshTokensCatch(cause) ELSE cause

AuthInit ==
  /\ now = 0
  /\ ticks = 0
  /\ userActive = [u \in Users |-> TRUE]
  /\ userPassword = [u \in Users |-> "pwA"]
  /\ refreshRows = {}
  /\ passwordResets = {}
  /\ pc = [p \in Procs |-> "idle"]
  /\ loc = [p \in Procs |-> NoLoc]
  /\ done = NoDone
  /\ successors = {}
  /\ preReset = {}

\* A call returns or throws: the caller is idle again and holds the outcome.
Finish(p, op, valid, outcome, cause) ==
  /\ pc' = [pc EXCEPT ![p] = "idle"]
  /\ loc' = [loc EXCEPT ![p] = NoLoc]
  /\ done' = [op |-> op, outcome |-> outcome, cause |-> cause, valid |-> valid,
              message |-> Thrown(op, outcome, cause)]

(***************************************************************************)
(* The clock: the next second, or a jump by the lifetime of a token.       *)
(***************************************************************************)
Tick ==
  /\ ticks < MaxTicks
  /\ ticks' = ticks + 1
  /\ \/ now' = now + 1
     \/ now' = now + JwtRefreshTokenExpiration
  /\ UNCHANGED <<acctVars, adminVars, keyVars, quotaVars, overlap, userActive, userPassword, refreshRows, passwordResets,
                 pc, loc, done, successors, preReset>>

(***************************************************************************)
(* AdminService.deactivateUser / activateUser (role user).                 *)
(***************************************************************************)
deactivateUser(u) ==
  /\ userActive[u]
  /\ userActive' = [userActive EXCEPT ![u] = FALSE]
  /\ UNCHANGED <<acctVars, adminVars, keyVars, quotaVars, overlap, now, ticks, userPassword, refreshRows, passwordResets,
                 pc, loc, done, successors, preReset>>

activateUser(u) ==
  /\ ~userActive[u]
  /\ userActive' = [userActive EXCEPT ![u] = TRUE]
  /\ UNCHANGED <<acctVars, adminVars, keyVars, quotaVars, overlap, now, ticks, userPassword, refreshRows, passwordResets,
                 pc, loc, done, successors, preReset>>

\* A call may start: calls overlap, or no other call is in flight.
MayStart(p) == pc[p] = "idle" /\ (overlap \/ \A q \in Procs : pc[q] = "idle")

AllIdle == \A p \in Procs : pc[p] = "idle"

\* Calls in flight that will still INSERT a refresh-token row.
InFlightInserts == Cardinality({q \in Procs : pc[q] \in {"rt_user", "rt_save_old", "rt_save_new"}})

(***************************************************************************)
(* AuthService.login.                                                      *)
(***************************************************************************)
\* The test of isEmailVerified left out.
LoginOutcomeUnverified(u, pw) ==
  IF ~userExists[u] THEN "Invalid credentials"
  ELSE IF ~userActive[u] THEN "Account is deactivated"
  ELSE IF pw # userPassword[u] THEN "Invalid credentials"
  ELSE IF DuplicateToken(Sha256(generateRefreshToken(u, now))) THEN "QueryFailedError"
  ELSE "ok"

LoginOutcome(u, pw) ==
  IF ~userExists[u] THEN "Invalid credentials"
  ELSE IF ~userActive[u] THEN "Account is deactivated"
  ELSE IF enableEmailVerification /\ ~isEmailVerified[u]
  THEN "Please verify your email before logging in"
  ELSE IF pw # userPassword[u] THEN "Invalid credentials"
  ELSE IF DuplicateToken(Sha256(generateRefreshToken(u, now))) THEN "QueryFailedError"
  ELSE "ok"

login(p, u, pw) ==
  /\ MayStart(p)
  /\ nextRowId + InFlightInserts <= MaxRows
  /\ LET tok == generateRefreshToken(u, now)
         out == LoginOutcome(u, pw)
     IN  IF out = "ok"
         THEN /\ refreshRows' = refreshRows \cup {NewRefreshRow(nextRowId, Sha256(tok), u, now)}
              /\ Finish(p, "login", FALSE, "ok", "ok")
         ELSE /\ UNCHANGED refreshRows
              /\ Finish(p, "login", FALSE,
                        IF out = "QueryFailedError" THEN "error" ELSE "unauthorized", out)
  /\ UNCHANGED <<acctVars, adminVars, keyVars, quotaVars, overlap, now, ticks, userActive, userPassword, passwordResets, successors, preReset>>

(***************************************************************************)
(* JwtStrategy.validate: passport has verified the access token's          *)
(* signature and expiry; the subject of its payload is looked up.          *)
(***************************************************************************)
\* A lookup by id alone.
validateUserById(u) == IF userExists[u] THEN {u} ELSE {}

\* AuthService.validateUser: findOne({where: {id, isActive: true}}); {} is null.
validateUser(u) == IF userExists[u] /\ userActive[u] THEN {u} ELSE {}

JwtStrategyValidate(p, u) ==
  /\ MayStart(p)
  /\ IF validateUser(u) = {}
     THEN Finish(p, "validate", FALSE, "unauthorized", "User not found or inactive")
     ELSE Finish(p, "validate", TRUE, "ok", "ok")
  /\ UNCHANGED <<acctVars, adminVars, keyVars, quotaVars, overlap, now, ticks, userActive,
                 userPassword, refreshRows, passwordResets, successors, preReset>>

(***************************************************************************)
(* AuthService.logout: the row is looked up by the hash alone, marked      *)
(* revoked in memory and saved.                                            *)
(***************************************************************************)
FindByToken(tok) == {r \in refreshRows : r.token = Sha256(tok)}

\* The row saved with its flag as it was read.
LoggedOutFlagKept(row) == row

\* storedToken.isRevoked = true (revokedAt is not kept in this model's rows)
LoggedOut(row) == [row EXCEPT !.isRevoked = TRUE]

logout(p, tok) ==
  /\ MayStart(p)
  /\ IF FindByToken(tok) = {}
     THEN Finish(p, "logout", FALSE, "ok", "no row")
     ELSE /\ pc' = [pc EXCEPT ![p] = "lo_save"]
          /\ loc' = [loc EXCEPT ![p] = [NoLoc EXCEPT !.tok = tok,
                        !.row = LoggedOut(CHOOSE r \in FindByToken(tok) : TRUE)]]
          /\ UNCHANGED done
  /\ UNCHANGED <<acctVars, adminVars, keyVars, quotaVars, overlap, now, ticks, userActive, userPassword,
                 refreshRows, passwordResets, successors, preReset>>

LogoutSave(p) ==
  /\ pc[p] = "lo_save"
  /\ refreshRows' = SaveRow(refreshRows, loc[p].row)
  /\ Finish(p, "logout", FALSE, "ok", "revoked")
  /\ UNCHANGED <<acctVars, adminVars, keyVars, quotaVars, overlap, now, ticks, userActive, userPassword,
                 passwordResets, successors, preReset>>

(***************************************************************************)
(* AuthService.refreshTokens, one step per await.                          *)
(***************************************************************************)
\* findOne({where: {token, userId, isRevoked: false}})
FindStoredToken(tok) ==
  {r \in refreshRows : r.token = Sha256(tok) /\ r.userId = tok.sub /\ ~r.isRevoked}

\* jwt verify, the row lookup and the expiry test: up to the second await.
RefreshStart(p, tok) ==
  /\ MayStart(p)
  /\ nextRowId + InFlightInserts <= MaxRows
  /\ IF ~JwtVerify(tok, now)
     THEN Finish(p, "refresh", FALSE, "unauthorized", "jwt")
     ELSE IF FindStoredToken(tok) = {}
     THEN Finish(p, "refresh", FALSE, "unauthorized", "Invalid refresh token")
     ELSE LET row == CHOOSE r \in FindStoredToken(tok) : TRUE
          IN  IF row.expiresAt < now
              THEN Finish(p, "refresh", FALSE, "unauthorized",
                          "Refresh token has expired")
              ELSE /\ pc' = [pc EXCEPT ![p] = "rt_user"]
                   /\ loc' = [loc EXCEPT ![p] = [NoLoc EXCEPT !.tok = tok, !.row = row,
                                                              !.valid = TRUE]]
                   /\ UNCHANGED done
  /\ UNCHANGED <<acctVars, adminVars, keyVars, quotaVars, overlap, now, ticks, userActive, userPassword, refreshRows, passwordResets,
                 successors, preReset>>

\* userRepository.findOne, the isActive test, and the signing of the new pair.
RefreshFindUser(p) ==
  /\ pc[p] = "rt_user"
  /\ IF ~userActive[loc[p].tok.sub]
     THEN Finish(p, "refresh", loc[p].valid, "unauthorized",
                 "User not found or inactive")
     ELSE /\ pc' = [pc EXCEPT ![p] = "rt_save_old"]
          /\ loc' = [loc EXCEPT ![p].new = generateRefreshToken(loc[p].tok.sub, now)]
          /\ UNCHANGED done
  /\ UNCHANGED <<acctVars, adminVars, keyVars, quotaVars, overlap, now, ticks, userActive, userPassword, refreshRows, passwordResets,
                 successors, preReset>>

\* storedToken.isRevoked = true; replacedByToken = sha256(new); save(storedToken)
RevokedBy(row, new) == [row EXCEPT !.isRevoked = TRUE, !.replacedByToken = {Sha256(new)}]

RefreshSaveOld(p) ==
  /\ pc[p] = "rt_save_old"
  /\ refreshRows' = SaveRow(refreshRows, RevokedBy(loc[p].row, loc[p].new))
  /\ pc' = [pc EXCEPT ![p] = "rt_save_new"]
  /\ UNCHANGED <<acctVars, adminVars, keyVars, quotaVars, overlap, now, ticks, userActive, userPassword, passwordResets,
                 loc, done, successors, preReset>>

\* save(newTokenEntity): the INSERT, refused by the unique index on a duplicate.
RefreshSaveNew(p) ==
  /\ pc[p] = "rt_save_new"
  /\ IF DuplicateToken(Sha256(loc[p].new))
     THEN /\ Finish(p, "refresh", loc[p].valid, "unauthorized",
                    "QueryFailedError")
          /\ UNCHANGED <<acctVars, adminVars, keyVars, quotaVars, overlap, refreshRows, successors, preReset>>
     ELSE /\ refreshRows' = refreshRows \cup
               {NewRefreshRow(nextRowId, Sha256(loc[p].new), loc[p].tok.sub, now)}
          /\ successors' = successors \cup {<<loc[p].row.id, nextRowId>>}
          /\ preReset' = IF loc[p].row.id \in preReset
                         THEN preReset \cup {nextRowId} ELSE preReset
          /\ Finish(p, "refresh", loc[p].valid, "ok", "ok")
  /\ UNCHANGED <<acctVars, adminVars, keyVars, quotaVars, overlap, now, ticks, userActive, userPassword, passwordResets>>

\* The repository throws at one of the awaits: the catch-all turns it into Unauthorized.
RefreshStorageError(p) ==
  /\ pc[p] \in {"rt_user", "rt_save_old", "rt_save_new"}
  /\ Finish(p, "refresh", loc[p].valid, "unauthorized", "storage")
  /\ UNCHANGED <<acctVars, adminVars, keyVars, quotaVars, overlap, now, ticks, userActive, userPassword, refreshRows, passwordResets,
                 successors, preReset>>

(***************************************************************************)
(* AuthService.forgotPassword: a reset row with a fresh random token.      *)
(***************************************************************************)
forgotPassword(u) ==
  /\ Cardinality(passwordResets) < MaxResets
  /\ passwordResets' = passwordResets \cup
       {[token |-> Cardinality(passwordResets) + 1, userId |-> u, isUsed |-> FALSE,
         expiresAt |-> now + PasswordResetLifetime]}
  /\ UNCHANGED <<acctVars, adminVars, keyVars, quotaVars, overlap, now, ticks, userActive, userPassword, refreshRows,
                 pc, loc, done, successors, preReset>>

(***************************************************************************)
(* AuthService.resetPassword, one step per await.                          *)
(***************************************************************************)
\* passwordResetRepository.findOne({where: {token, isUsed: false}})
FindPasswordReset(t) == {r \in passwordResets : r.token = t /\ ~r.isUsed}

ResetStart(p, t, pw) ==
  /\ MayStart(p)
  /\ IF FindPasswordReset(t) = {}
     THEN Finish(p, "reset", FALSE, "bad_request", "Invalid or expired reset token")
     ELSE LET r == CHOOSE x \in FindPasswordReset(t) : TRUE
          IN  IF r.expiresAt < now
              THEN Finish(p, "reset", FALSE, "bad_request", "Reset token has expired")
              ELSE /\ pc' = [pc EXCEPT ![p] = "rp_user"]
                   /\ loc' = [loc EXCEPT ![p] = [NoLoc EXCEPT !.reset = t, !.pw = pw]]
                   /\ UNCHANGED done
  /\ UNCHANGED <<acctVars, adminVars, keyVars, quotaVars, overlap, now, ticks, userActive, userPassword, refreshRows, passwordResets,
                 successors, preReset>>

ResetUser(p) == CHOOSE u \in Users : \E r \in passwordResets : r.token = loc[p].reset /\ r.userId = u

\* userRepository.findOne({id}) and hashPassword: the user entity is now in memory.
ResetFindUser(p) ==
  /\ pc[p] = "rp_user"
  /\ pc' = [pc EXCEPT ![p] = "rp_save_user"]
  /\ loc' = [loc EXCEPT ![p].uActive = userActive[ResetUser(p)],
                         ![p].uVerified = isEmailVerified[ResetUser(p)]]
  /\ UNCHANGED <<acctVars, adminVars, keyVars, quotaVars, overlap, now, ticks, userActive, userPassword, refreshRows, passwordResets,
                 done, successors, preReset>>

\* userRepository.save(user): the entity as it was loaded, with the new hash and salt.
ResetSaveUser(p) ==
  /\ pc[p] = "rp_save_user"
  /\ userPassword' = [userPassword EXCEPT ![ResetUser(p)] = loc[p].pw]
  /\ userActive' = [userActive EXCEPT ![ResetUser(p)] = loc[p].uActive]
  /\ isEmailVerified' = [isEmailVerified EXCEPT ![ResetUser(p)] = loc[p].uVerified]
  /\ pc' = [pc EXCEPT ![p] = "rp_mark_used"]
  /\ UNCHANGED <<adminVars, keyVars, quotaVars, overlap, now, ticks, refreshRows,
                 passwordResets, loc, done, successors, preReset, userExists,
                 enableEmailVerification, emailVerifications, endedSessions>>

\* passwordReset.isUsed = true; save(passwordReset)
ResetMarkUsed(p) ==
  /\ pc[p] = "rp_mark_used"
  /\ passwordResets' = {IF r.token = loc[p].reset THEN [r EXCEPT !.isUsed = TRUE] ELSE r :
                        r \in passwordResets}
  /\ pc' = [pc EXCEPT ![p] = "rp_revoke"]
  /\ UNCHANGED <<acctVars, adminVars, keyVars, quotaVars, overlap, now, ticks, userActive, userPassword, refreshRows,
                 loc, done, successors, preReset>>

\* refreshTokenRepository.update({userId, isRevoked: false}, {isRevoked: true})
RevokeAllOf(rows, u) ==
  {IF r.userId = u /\ ~r.isRevoked THEN [r EXCEPT !.isRevoked = TRUE] ELSE r : r \in rows}

ResetRevokeAll(p) ==
  /\ pc[p] = "rp_revoke"
  /\ refreshRows' = RevokeAllOf(refreshRows, ResetUser(p))
  /\ preReset' = preReset \cup {r.id : r \in {x \in refreshRows : x.userId = ResetUser(p)}}
  /\ Finish(p, "reset", FALSE, "ok", "ok")
  /\ UNCHANGED <<acctVars, adminVars, keyVars, quotaVars, overlap, now, ticks, userActive, userPassword, passwordResets, successors>>

(***************************************************************************)
(* AuthService.signup, one step per await that touches shared state.  The  *)
(* lookup of the Free plan and hashPassword are part of the first step.    *)
(***************************************************************************)
AcctFrame ==
  UNCHANGED <<adminVars, keyVars, quotaVars, overlap, now, ticks, refreshRows,
              passwordResets, successors, preReset, enableEmailVerification, endedSessions>>

\* The verification token of the n-th signup: crypto.randomBytes(32), never repeated.
nextVerificationToken == Cardinality(emailVerifications) + 1
VerificationTokens == 1..(MaxSignups + 1)

\* userRepository.findOne({email}): an existing user is a conflict.
SignupStart(p, u, pw) ==
  /\ MayStart(p)
  /\ IF userExists[u]
     THEN Finish(p, "signup", FALSE, "conflict", "User with this email already exists")
     ELSE /\ pc' = [pc EXCEPT ![p] = "su_save_user"]
          /\ loc' = [loc EXCEPT ![p] = [NoLoc EXCEPT !.email = u, !.pw = pw]]
          /\ UNCHANGED done
  /\ UNCHANGED <<userActive, userPassword, userExists, isEmailVerified, emailVerifications>>
  /\ AcctFrame

\* A signup that marks every new user verified.
NewUserVerifiedAlways == TRUE

\* isEmailVerified: !this.configService.enableEmailVerification
NewUserVerified == ~enableEmailVerification

\* userRepository.save(user): the INSERT, refused by idx_users_email on a duplicate.
SignupSaveUser(p) ==
  /\ pc[p] = "su_save_user"
  /\ LET u == loc[p].email
     IN  IF userExists[u]
         THEN /\ Finish(p, "signup", FALSE, "error", "QueryFailedError")
              /\ UNCHANGED <<userActive, userPassword, userExists, isEmailVerified>>
         ELSE /\ userExists' = [userExists EXCEPT ![u] = TRUE]
              /\ userActive' = [userActive EXCEPT ![u] = TRUE]
              /\ userPassword' = [userPassword EXCEPT ![u] = loc[p].pw]
              /\ isEmailVerified' = [isEmailVerified EXCEPT ![u] = NewUserVerified]
              /\ pc' = [pc EXCEPT ![p] = IF enableEmailVerification
                                         THEN "su_save_verification" ELSE "su_welcome"]
              /\ UNCHANGED <<loc, done>>
  /\ UNCHANGED emailVerifications
  /\ AcctFrame

\* emailVerificationRepository.save(verification), sendVerificationEmail, return.
SignupSaveVerification(p) ==
  /\ pc[p] = "su_save_verification"
  /\ emailVerifications' = emailVerifications \cup
       {[token |-> nextVerificationToken, userId |-> loc[p].email, isUsed |-> FALSE,
         expiresAt |-> now + VerificationLifetime]}
  /\ Finish(p, "signup", FALSE, "ok", "Please check your email to verify your account")
  /\ UNCHANGED <<userActive, userPassword, userExists, isEmailVerified>>
  /\ AcctFrame

\* sendWelcomeEmail, return.
SignupWelcome(p) ==
  /\ pc[p] = "su_welcome"
  /\ Finish(p, "signup", FALSE, "ok", "You can now log in")
  /\ UNCHANGED <<userActive, userPassword, userExists, isEmailVerified, emailVerifications>>
  /\ AcctFrame

(***************************************************************************)
(* AuthService.verifyEmail.                                                *)
(***************************************************************************)
\* emailVerificationRepository.findOne({where: {token, isUsed: false}})
FindVerification(t) == {v \in emailVerifications : v.token = t /\ ~v.isUsed}

VerifyStart(p, t) ==
  /\ MayStart(p)
  /\ IF FindVerification(t) = {}
     THEN Finish(p, "verifyEmail", FALSE, "bad_request",
                 "Invalid or expired verification token")
     ELSE LET v == CHOOSE x \in FindVerification(t) : TRUE
          IN  IF v.expiresAt < now
              THEN Finish(p, "verifyEmail", FALSE, "bad_request",
                          "Verification token has expired")
              ELSE /\ pc' = [pc EXCEPT ![p] = "ve_user"]
                   /\ loc' = [loc EXCEPT ![p] = [NoLoc EXCEPT !.verification = t,
                                                              !.email = v.userId]]
                   /\ UNCHANGED done
  /\ UNCHANGED <<userActive, userPassword, userExists, isEmailVerified, emailVerifications>>
  /\ AcctFrame

\* userRepository.findOne({id: verification.userId}): the user entity is now in memory.
VerifyFindUser(p) ==
  /\ pc[p] = "ve_user"
  /\ pc' = [pc EXCEPT ![p] = "ve_save_user"]
  /\ loc' = [loc EXCEPT ![p].uActive = userActive[loc[p].email],
                         ![p].pw = userPassword[loc[p].email]]
  /\ UNCHANGED <<done, userActive, userPassword, userExists, isEmailVerified,
                 emailVerifications>>
  /\ AcctFrame

\* user.isEmailVerified = true; userRepository.save(user): the entity as it was loaded.
VerifySaveUser(p) ==
  /\ pc[p] = "ve_save_user"
  /\ isEmailVerified' = [isEmailVerified EXCEPT ![loc[p].email] = TRUE]
  /\ userActive' = [userActive EXCEPT ![loc[p].email] = loc[p].uActive]
  /\ userPassword' = [userPassword EXCEPT ![loc[p].email] = loc[p].pw]
  /\ pc' = [pc EXCEPT ![p] = "ve_mark_used"]
  /\ UNCHANGED <<loc, done, userExists, emailVerifications>>
  /\ AcctFrame

\* verification.isUsed = true; save(verification); sendWelcomeEmail; return.
VerifyMarkUsed(p) ==
  /\ pc[p] = "ve_mark_used"
  /\ emailVerifications' =
       {IF v.token = loc[p].verification THEN [v EXCEPT !.isUsed = TRUE] ELSE v :
        v \in emailVerifications}
  /\ Finish(p, "verifyEmail", FALSE, "ok", "Email verified successfully")
  /\ UNCHANGED <<userActive, userPassword, userExists, isEmailVerified>>
  /\ AcctFrame

(***************************************************************************)
(* AuthController.logout (POST /auth/logout): the handler clears the       *)
(* refreshToken cookie of the response and returns.  tok is the refresh    *)
(* token the session held when the request was made.                       *)
(***************************************************************************)
PostAuthLogout(p, tok) ==
  /\ MayStart(p)
  /\ UNCHANGED refreshRows
  /\ endedSessions' = endedSessions \cup {tok}
  /\ Finish(p, "POST /auth/logout", FALSE, "ok", "Logged out successfully")
  /\ UNCHANGED <<adminVars, keyVars, quotaVars, overlap, now, ticks, userActive, userPassword,
                 passwordResets, successors, preReset, userExists, isEmailVerified,
                 enableEmailVerification, emailVerifications>>

(***************************************************************************)
(* AdminService: the user-management methods, one step per await.  Every   *)
(* method starts with getUserById and ends with a save (or remove) of the  *)
(* entity it loaded.                                                       *)
(***************************************************************************)
Accounts == {"a1", "a2"}
AdminOps == {"deactivateUser", "activateUser", "promoteToAdmin", "demoteFromAdmin",
             "deleteUser"}

NoUser == [id |-> "none", role |-> "user", isActive |-> FALSE]
NoALoc == [op |-> "none", user |-> NoUser]

\* One active admin and one active user.
AdminInit ==
  /\ adminUsers = {[id |-> "a1", role |-> "admin", isActive |-> TRUE],
                   [id |-> "a2", role |-> "user", isActive |-> TRUE]}
  /\ apc = [p \in Procs |-> "idle"]
  /\ aloc = [p \in Procs |-> NoALoc]
  /\ adminCalls = 0

AFrame == UNCHANGED <<authVars, quotaVars, keyVars, acctVars>>

AMayStart(p) ==
  /\ apc[p] = "idle"
  /\ overlap \/ \A q \in Procs : apc[q] = "idle"
  /\ adminCalls < MaxAdminCalls

\* The call returns or throws: its entity is dropped.
AReturn(p) ==
  /\ apc' = [apc EXCEPT ![p] = "idle"]
  /\ aloc' = [aloc EXCEPT ![p] = NoALoc]
  /\ UNCHANGED adminCalls

\* userRepository.save(entity): the row with the entity's id is written as a whole.
SaveUser(rows, e) == {r \in rows : r.id # e.id} \cup {e}

\* userRepository.count({where: {role: UserRole.ADMIN}})
CountAdmins == Cardinality({r \in adminUsers : r.role = "admin"})

\* getUserById, then what the method does before its next await.
getUserById(p, op, id) ==
  /\ AMayStart(p)
  /\ LET found == {r \in adminUsers : r.id = id}
         user == CHOOSE r \in found : TRUE
     IN  IF \/ found = {}                                      \* NotFoundException
            \/ op = "deactivateUser" /\ user.role = "admin"    \* Cannot deactivate admin users
            \/ op = "demoteFromAdmin" /\ user.role # "admin"   \* User is not an admin
         THEN UNCHANGED <<apc, aloc>>
         ELSE /\ apc' = [apc EXCEPT ![p] =
                    IF op = "demoteFromAdmin" \/ (op = "deleteUser" /\ user.role = "admin")
                    THEN "count" ELSE IF op = "deleteUser" THEN "remove" ELSE "save"]
              /\ aloc' = [aloc EXCEPT ![p] = [op |-> op, user |-> user]]
  /\ adminCalls' = adminCalls + 1
  /\ UNCHANGED adminUsers
  /\ AFrame

\* The last-admin test on the number of rows with role admin.
AdminCount(p) ==
  /\ apc[p] = "count"
  /\ IF CountAdmins <= 1
     THEN AReturn(p)
     ELSE /\ apc' = [apc EXCEPT ![p] = IF aloc[p].op = "deleteUser" THEN "remove" ELSE "save"]
          /\ UNCHANGED <<aloc, adminCalls>>
  /\ UNCHANGED adminUsers
  /\ AFrame

\* The assignment each method makes to its entity.
Changed(op, user) ==
  CASE op = "deactivateUser" -> [user EXCEPT !.isActive = FALSE]
    [] op = "activateUser" -> [user EXCEPT !.isActive = TRUE]
    [] op = "promoteToAdmin" -> [user EXCEPT !.role = "admin"]
    [] op = "demoteFromAdmin" -> [user EXCEPT !.role = "user"]
    [] OTHER -> user

AdminSave(p) ==
  /\ apc[p] = "save"
  /\ adminUsers' = SaveUser(adminUsers, Changed(aloc[p].op, aloc[p].user))
  /\ AReturn(p)
  /\ AFrame

\* userRepository.remove(user)
AdminRemove(p) ==
  /\ apc[p] = "remove"
  /\ adminUsers' = {r \in adminUsers : r.id # aloc[p].user.id}
  /\ AReturn(p)
  /\ AFrame

(***************************************************************************)
(* Nullable numbers (a plan limit, a remaining figure, an absent cache     *)
(* key): {} is null, {n} is n.                                             *)
(***************************************************************************)
Null == {}
Some(n) == {n}
Val(x) == CHOOSE n \in x : TRUE
\* JavaScript truthiness of a number | null: null and 0 are falsy.
Truthy(x) == x # Null /\ Val(x) # 0

Limits == {Null} \cup {Some(n) : n \in 0..MaxLimit}

(***************************************************************************)
(* RedisService.                                                           *)
(***************************************************************************)
\* getCounter: value ? parseInt(value, 10) : 0
getCounter(entry) == IF entry = Null THEN 0 ELSE Val(entry)

\* A write of the first count in place of the atomic increment.
incrAsSet(entry) == Some(1)

\* client.incr(key): one atomic command; an absent key counts from 0.
incr(entry) == Some(getCounter(entry) + 1)

(***************************************************************************)
(* QuotaService.checkQuota on the usage figures d (daily) and m (monthly). *)
(***************************************************************************)
QuotaCheck(allowed, reason, d, m, remD, remM) ==
  [allowed |-> allowed, reason |-> reason,
   dailyUsed |-> d, dailyLimit |-> plan.dailyRequestLimit,
   monthlyUsed |-> m, monthlyLimit |-> plan.monthlyRequestLimit,
   remainingDaily |-> remD, remainingMonthly |-> remM]

\* An exemption that still reports the plan's limits.
TestQuotaCheckWithLimits ==
  [allowed |-> TRUE, reason |-> "none",
   dailyUsed |-> 0, dailyLimit |-> plan.dailyRequestLimit,
   monthlyUsed |-> 0, monthlyLimit |-> plan.monthlyRequestLimit,
   remainingDaily |-> Null, remainingMonthly |-> Null]

\* The branch for ApiKeyType.TEST: no usage is read.
TestQuotaCheck ==
  [allowed |-> TRUE, reason |-> "none",
   dailyUsed |-> 0, dailyLimit |-> Null, monthlyUsed |-> 0, monthlyLimit |-> Null,
   remainingDaily |-> Null, remainingMonthly |-> Null]

\* The daily comparison off by one: usage equal to the limit still passes.
LiveQuotaCheckOffByOne(d, m) ==
  LET L == plan.dailyRequestLimit
      M == plan.monthlyRequestLimit
  IN  IF enforceDailyQuota /\ L # Null /\ d > Val(L)
      THEN QuotaCheck(FALSE, "Daily quota exceeded", d, m, Some(0),
                      IF Truthy(M) THEN Some(Val(M) - m) ELSE Null)
      ELSE IF enforceMonthlyQuota /\ M # Null /\ m >= Val(M)
      THEN QuotaCheck(FALSE, "Monthly quota exceeded", d, m,
                      IF Truthy(L) THEN Some(Val(L) - d) ELSE Null, Some(0))
      ELSE QuotaCheck(TRUE, "none", d, m,
                      IF L # Null THEN Some(Val(L) - d) ELSE Null,
                      IF M # Null THEN Some(Val(M) - m) ELSE Null)

\* The remaining daily figure reported as the limit itself.
LiveQuotaCheckNoSubtract(d, m) ==
  LET L == plan.dailyRequestLimit
      M == plan.monthlyRequestLimit
  IN  IF enforceDailyQuota /\ L # Null /\ d >= Val(L)
      THEN QuotaCheck(FALSE, "Daily quota exceeded", d, m, Some(0),
                      IF Truthy(M) THEN Some(Val(M) - m) ELSE Null)
      ELSE IF enforceMonthlyQuota /\ M # Null /\ m >= Val(M)
      THEN QuotaCheck(FALSE, "Monthly quota exceeded", d, m,
                      IF Truthy(L) THEN Some(Val(L) - d) ELSE Null, Some(0))
      ELSE QuotaCheck(TRUE, "none", d, m,
                      L,
                      IF M # Null THEN Some(Val(M) - m) ELSE Null)

LiveQuotaCheck(d, m) ==
  LET L == plan.dailyRequestLimit
      M == plan.monthlyRequestLimit
  IN  IF enforceDailyQuota /\ L # Null /\ d >= Val(L)
      THEN QuotaCheck(FALSE, "Daily quota exceeded", d, m, Some(0),
                      IF Truthy(M) THEN Some(Val(M) - m) ELSE Null)
      ELSE IF enforceMonthlyQuota /\ M # Null /\ m >= Val(M)
      THEN QuotaCheck(FALSE, "Monthly quota exceeded", d, m,
                      IF Truthy(L) THEN Some(Val(L) - d) ELSE Null, Some(0))
      ELSE QuotaCheck(TRUE, "none", d, m,
                      IF L # Null THEN Some(Val(L) - d) ELSE Null,
                      IF M # Null THEN Some(Val(M) - m) ELSE Null)

NoQuotaCheck == [TestQuotaCheck EXCEPT !.reason = "no call"]

(***************************************************************************)
(* QuotaService.getQuotaStatus on the usage figures d and m.  A percentage *)
(* is a JavaScript number: its integer part, or NaN.                       *)
(***************************************************************************)
NaN == {"NaN"}

\* limit !== null ? Math.max(0, limit - usage) : null
Remaining(usage, limit) ==
  IF limit = Null THEN Null
  ELSE Some(IF Val(limit) - usage > 0 THEN Val(limit) - usage ELSE 0)

\* limit !== null ? Math.min(100, (usage / limit) * 100) : null.  Division
\* by 0 gives NaN for 0 / 0 and Infinity otherwise; Math.min(100, NaN) is NaN.
Percentage(usage, limit) ==
  IF limit = Null THEN Null
  ELSE IF Val(limit) = 0 THEN (IF usage = 0 THEN NaN ELSE Some(100))
  ELSE IF usage * 100 >= 100 * Val(limit) THEN Some(100)
  ELSE Some((usage * 100) \div Val(limit))

QuotaStatus(d, m) ==
  [dailyLimit |-> plan.dailyRequestLimit, monthlyLimit |-> plan.monthlyRequestLimit,
   dailyUsed |-> d, monthlyUsed |-> m,
   remainingDaily |-> Remaining(d, plan.dailyRequestLimit),
   remainingMonthly |-> Remaining(m, plan.monthlyRequestLimit),
   dailyPercentage |-> Percentage(d, plan.dailyRequestLimit),
   monthlyPercentage |-> Percentage(m, plan.monthlyRequestLimit), called |-> TRUE]

NoQuotaStatus ==
  [dailyLimit |-> Null, monthlyLimit |-> Null, dailyUsed |-> 0, monthlyUsed |-> 0,
   remainingDaily |-> Null, remainingMonthly |-> Null,
   dailyPercentage |-> Null, monthlyPercentage |-> Null, called |-> FALSE]

(***************************************************************************)
(* The durable ledger: usageRepository.count for the day and the month.    *)
(* Neither query filters on status: SUCCESS and FAILED rows both count.    *)
(***************************************************************************)
CountToday == ledgerToday
CountMonth == ledgerPrior + ledgerToday

\* What getDailyUsage / getMonthlyUsage return in the present state.
DailyUsage == IF getCounter(cacheDaily) > 0 THEN getCounter(cacheDaily) ELSE CountToday
MonthlyUsage == IF getCounter(cacheMonthly) > 0 THEN getCounter(cacheMonthly) ELSE CountMonth

\* events: the conversion and the increments the call has made so far; error: "cache"
\* when a rejected Redis command sent it to its catch block.
NoQLoc == [kind |-> "none", type |-> "live", daily |-> 0, monthly |-> 0,
           events |-> <<>>, error |-> "none"]

NoTally == [calls |-> 0, evictions |-> 0, increments |-> 0, succeeded |-> 0]

QuotaInit ==
  /\ plan \in [dailyRequestLimit : Limits, monthlyRequestLimit : Limits]
  /\ enforceDailyQuota \in BOOLEAN
  /\ enforceMonthlyQuota \in BOOLEAN
  /\ cacheDaily = Null
  /\ cacheMonthly = Null
  /\ ledgerToday = 0
  /\ ledgerPrior \in 0..MaxPrior
  /\ qpc = [p \in Procs |-> "idle"]
  /\ qloc = [p \in Procs |-> NoQLoc]
  /\ quotaResult = NoQuotaCheck
  /\ tally = NoTally
  /\ quotaStatus = NoQuotaStatus

QMayStart(p) ==
  /\ qpc[p] = "idle"
  /\ overlap \/ \A q \in Procs : qpc[q] = "idle"
  /\ tally.calls < MaxCalls

\* What no quota call writes.
QConfigFrame ==
  UNCHANGED <<authVars, keyVars, acctVars, adminVars, plan, enforceDailyQuota,
              enforceMonthlyQuota, ledgerPrior, cacheUp>>

QFrame == QConfigFrame /\ UNCHANGED quotaStatus

\* The call moves on to pc with its locals set.
QGoto(p, to, l) ==
  /\ qpc' = [qpc EXCEPT ![p] = to]
  /\ qloc' = [qloc EXCEPT ![p] = l]

QReturn(p) == QGoto(p, "idle", NoQLoc)

(***************************************************************************)
(* Entry points: a billable request (PdfProxyService.generatePdfFromHtml,  *)
(* generatePdfFromUrl), a direct checkQuota, a direct incrementUsage.      *)
(***************************************************************************)
StartRequest(p, type) ==
  /\ QMayStart(p)
  /\ tally' = [tally EXCEPT !.calls = @ + 1]
  /\ QGoto(p, IF type = "test" THEN "convert" ELSE "get_daily",
           [NoQLoc EXCEPT !.kind = "request", !.type = type])
  /\ UNCHANGED <<cacheDaily, cacheMonthly, ledgerToday, quotaResult>>
  /\ QFrame

StartCheckQuota(p, type) ==
  /\ QMayStart(p)
  /\ tally' = [tally EXCEPT !.calls = @ + 1]
  /\ IF type = "test"
     THEN /\ quotaResult' = TestQuotaCheck
          /\ QReturn(p)
     ELSE /\ QGoto(p, "get_daily", [NoQLoc EXCEPT !.kind = "check", !.type = type])
          /\ UNCHANGED quotaResult
  /\ UNCHANGED <<cacheDaily, cacheMonthly, ledgerToday>>
  /\ QFrame

\* getQuotaStatus: getDailyUsage, getMonthlyUsage, then the figures.
getQuotaStatus(p) ==
  /\ QMayStart(p)
  /\ tally' = [tally EXCEPT !.calls = @ + 1]
  /\ QGoto(p, "get_daily", [NoQLoc EXCEPT !.kind = "status"])
  /\ UNCHANGED <<cacheDaily, cacheMonthly, ledgerToday, quotaResult>>
  /\ QFrame

StartIncrementUsage(p) ==
  /\ QMayStart(p)
  /\ tally' = [tally EXCEPT !.calls = @ + 1]
  /\ QGoto(p, "incr_daily", [NoQLoc EXCEPT !.kind = "incr"])
  /\ UNCHANGED <<cacheDaily, cacheMonthly, ledgerToday, quotaResult>>
  /\ QFrame

(***************************************************************************)
(* QuotaService.getDailyUsage, one step per await.                         *)
(***************************************************************************)
\* redisService.getCounter(key); a hit (> 0) is returned.
GetDailyCounter(p) ==
  /\ qpc[p] = "get_daily"
  /\ cacheUp
  /\ IF getCounter(cacheDaily) > 0
     THEN QGoto(p, "get_monthly", [qloc[p] EXCEPT !.daily = getCounter(cacheDaily)])
     ELSE QGoto(p, "count_daily", qloc[p])
  /\ UNCHANGED <<cacheDaily, cacheMonthly, ledgerToday, quotaResult, tally>>
  /\ QFrame

\* A fallback that caches whatever it counted.
CountDailyCachesZero(p) ==
  /\ qpc[p] = "count_daily"
  /\ QGoto(p, "set_daily", [qloc[p] EXCEPT !.daily = CountToday])
  /\ UNCHANGED <<cacheDaily, cacheMonthly, ledgerToday, quotaResult, tally>>
  /\ QFrame

\* usageRepository.count({userId, date: today}); a count of 0 is not cached.
CountDaily(p) ==
  /\ qpc[p] = "count_daily"
  /\ QGoto(p, IF CountToday > 0 THEN "set_daily" ELSE "get_monthly",
           [qloc[p] EXCEPT !.daily = CountToday])
  /\ UNCHANGED <<cacheDaily, cacheMonthly, ledgerToday, quotaResult, tally>>
  /\ QFrame

\* redisService.set(key, count.toString(), 86400): SETEX overwrites the key.
BackfillDaily(p) ==
  /\ qpc[p] = "set_daily"
  /\ cacheUp
  /\ cacheDaily' = Some(qloc[p].daily)
  /\ QGoto(p, "get_monthly", qloc[p])
  /\ UNCHANGED <<cacheMonthly, ledgerToday, quotaResult, tally>>
  /\ QFrame

(***************************************************************************)
(* QuotaService.getMonthlyUsage, then the decision of checkQuota and what  *)
(* the caller does with it.                                                *)
(***************************************************************************)
\* getMonthlyUsage has returned m.  checkQuota returns its decision and
\* generatePdfFromHtml throws BadRequest on a denial; getQuotaStatus
\* returns its figures.
Decide(p, m) ==
  LET res == LiveQuotaCheck(qloc[p].daily, m)
      l == [qloc[p] EXCEPT !.monthly = m]
  IN  IF qloc[p].kind = "check"
      THEN /\ quotaResult' = res
           /\ QReturn(p)
           /\ UNCHANGED quotaStatus
      ELSE IF qloc[p].kind = "status"
      THEN /\ quotaStatus' = QuotaStatus(qloc[p].daily, m)
           /\ QReturn(p)
           /\ UNCHANGED quotaResult
      ELSE /\ UNCHANGED <<quotaResult, quotaStatus>>
           /\ QGoto(p, IF res.allowed THEN "convert" ELSE "record_failed", l)

GetMonthlyCounter(p) ==
  /\ qpc[p] = "get_monthly"
  /\ cacheUp
  /\ IF getCounter(cacheMonthly) > 0
     THEN Decide(p, getCounter(cacheMonthly))
     ELSE /\ QGoto(p, "count_monthly", qloc[p])
          /\ UNCHANGED <<quotaResult, quotaStatus>>
  /\ UNCHANGED <<cacheDaily, cacheMonthly, ledgerToday, tally>>
  /\ QConfigFrame

CountMonthly(p) ==
  /\ qpc[p] = "count_monthly"
  /\ IF CountMonth > 0
     THEN /\ QGoto(p, "set_monthly", [qloc[p] EXCEPT !.monthly = CountMonth])
          /\ UNCHANGED <<quotaResult, quotaStatus>>
     ELSE Decide(p, CountMonth)
  /\ UNCHANGED <<cacheDaily, cacheMonthly, ledgerToday, tally>>
  /\ QConfigFrame

BackfillMonthly(p) ==
  /\ qpc[p] = "set_monthly"
  /\ cacheUp
  /\ cacheMonthly' = Some(qloc[p].monthly)
  /\ Decide(p, qloc[p].monthly)
  /\ UNCHANGED <<cacheDaily, ledgerToday, tally>>
  /\ QConfigFrame

(***************************************************************************)
(* The conversion: the HTML size test, proxyToPdfService, the size and     *)
(* page tests on the response.  Every failure throws into the catch block. *)
(***************************************************************************)
ConvertOutcomes == {"pdf", "html_too_large", "backend_error", "pdf_too_large",
                    "pdf_exceeds_page_limit"}

\* A pipeline that increments whatever the conversion gave.
ConvertThenCount(p, outcome) ==
  /\ qpc[p] = "convert"
  /\ QGoto(p, "incr_daily", qloc[p])
  /\ UNCHANGED <<cacheDaily, cacheMonthly, ledgerToday, quotaResult, tally>>
  /\ QFrame

Convert(p, outcome) ==
  /\ qpc[p] = "convert"
  /\ IF outcome = "pdf"
     THEN QGoto(p, "incr_daily", [qloc[p] EXCEPT !.events = Append(@, "pdf")])
     ELSE QGoto(p, "record_failed", qloc[p])
  /\ UNCHANGED <<cacheDaily, cacheMonthly, ledgerToday, quotaResult, tally>>
  /\ QFrame

(***************************************************************************)
(* QuotaService.incrementUsage: redisService.incrementCounter on the daily *)
(* key, then on the monthly key.                                           *)
(***************************************************************************)
IncrDaily(p) ==
  /\ qpc[p] = "incr_daily"
  /\ cacheUp
  /\ cacheDaily' = incr(cacheDaily)
  /\ QGoto(p, "incr_monthly", [qloc[p] EXCEPT !.events = Append(@, "daily")])
  /\ UNCHANGED <<cacheMonthly, ledgerToday, quotaResult, tally>>
  /\ QFrame

IncrMonthly(p) ==
  /\ qpc[p] = "incr_monthly"
  /\ cacheUp
  /\ cacheMonthly' = incr(cacheMonthly)
  /\ IF qloc[p].kind = "incr"
     THEN /\ QReturn(p)
          /\ tally' = [tally EXCEPT !.increments = @ + 1]
     ELSE /\ QGoto(p, "record_success", [qloc[p] EXCEPT !.events = Append(@, "monthly")])
          /\ UNCHANGED tally
  /\ UNCHANGED <<cacheDaily, ledgerToday, quotaResult>>
  /\ QFrame

(***************************************************************************)
(* A Redis command is rejected (the server is down: ioredis gives up after *)
(* maxRetriesPerRequest).  RedisService and QuotaService catch nothing, so *)
(* the rejection reaches the caller: the catch block of the request, or    *)
(* the caller of a direct checkQuota / incrementUsage.                     *)
(***************************************************************************)
CachePositions == {"get_daily", "set_daily", "get_monthly", "set_monthly",
                   "incr_daily", "incr_monthly"}

CacheError(p) ==
  /\ qpc[p] \in CachePositions
  /\ ~cacheUp
  /\ IF qloc[p].kind = "request"
     THEN QGoto(p, "record_failed", [qloc[p] EXCEPT !.error = "cache"])
     ELSE QReturn(p)
  /\ UNCHANGED <<cacheDaily, cacheMonthly, ledgerToday, quotaResult, tally>>
  /\ QFrame

(***************************************************************************)
(* UsageService.recordUsage: a row of today, status SUCCESS or FAILED.     *)
(***************************************************************************)
\* A direct call: one save.
recordUsage(p) ==
  /\ QMayStart(p)
  /\ ledgerToday' = ledgerToday + 1
  /\ tally' = [tally EXCEPT !.calls = @ + 1]
  /\ UNCHANGED <<cacheDaily, cacheMonthly, qpc, qloc, quotaResult>>
  /\ QFrame

RecordSuccess(p) ==
  /\ qpc[p] = "record_success"
  /\ ledgerToday' = ledgerToday + 1
  /\ tally' = [tally EXCEPT !.succeeded = @ + (IF qloc[p].type = "live" THEN 1 ELSE 0)]
  /\ QReturn(p)
  /\ UNCHANGED <<cacheDaily, cacheMonthly, quotaResult>>
  /\ QFrame

RecordFailed(p) ==
  /\ qpc[p] = "record_failed"
  /\ ledgerToday' = ledgerToday + 1
  /\ QReturn(p)
  /\ UNCHANGED <<cacheDaily, cacheMonthly, quotaResult, tally>>
  /\ QFrame

(***************************************************************************)
(* The cache loses a key (TTL, memory pressure, restart).  When calls do   *)
(* not overlap this happens between two calls.                             *)
(***************************************************************************)
MayEvict ==
  /\ tally.evictions < MaxEvictions
  /\ overlap \/ \A q \in Procs : qpc[q] = "idle"

EvictDaily ==
  /\ MayEvict
  /\ cacheDaily # Null
  /\ cacheDaily' = Null
  /\ tally' = [tally EXCEPT !.evictions = @ + 1]
  /\ UNCHANGED <<cacheMonthly, ledgerToday, qpc, qloc, quotaResult>>
  /\ QFrame

EvictMonthly ==
  /\ MayEvict
  /\ cacheMonthly # Null
  /\ cacheMonthly' = Null
  /\ tally' = [tally EXCEPT !.evictions = @ + 1]
  /\ UNCHANGED <<cacheDaily, ledgerToday, qpc, qloc, quotaResult>>
  /\ QFrame

(***************************************************************************)
(* API keys.  A raw key is prefix_type_random, with random the hex of 32   *)
(* bytes of crypto.randomBytes: the n-th key created carries random n.     *)
(***************************************************************************)
apiKeyPrefix == "pdf"
KeyTypes == {"live", "test"}
HexRandoms == 0..MaxKeys

generateApiKey(type, n) == [prefix |-> apiKeyPrefix, type |-> type, random |-> n]

\* Raw keys no create has returned: the empty string, a wrong prefix, a
\* suffix that is not 64 lowercase hex characters, and a well-formed unknown key.
EmptyKey == [prefix |-> "", type |-> "", random |-> 0]
MalformedKeys ==
  {EmptyKey,
   [prefix |-> "sk", type |-> "live", random |-> 1],
   [prefix |-> apiKeyPrefix, type |-> "live", random |-> -1]}
UnknownKey == [prefix |-> apiKeyPrefix, type |-> "test", random |-> 0]

\* A pattern that knows live keys only.
keyFormatRegexLive(key) ==
  /\ key.prefix = apiKeyPrefix
  /\ key.type = "live"
  /\ key.random \in HexRandoms

\* keyFormatRegex: ^<prefix>_(live|test)_[a-f0-9]{64}$
keyFormatRegex(key) ==
  /\ key.prefix = apiKeyPrefix
  /\ key.type \in KeyTypes
  /\ key.random \in HexRandoms

\* EncryptionService.hashKey: SHA-256, hex.
hashKey(key) == [digest |-> key]

Permissions == {{}, {"pdf.generate"}}
DomainLists == {{}, {"example.com"}}

\* CreateApiKeyDto.  expiresAt is any date string (absent, past, future);
\* name and metadata are carried like permissions and are left out.  A key
\* is created either with no permissions and no allowlist or with both.
CreateDtos(t) ==
  {dto \in [type : KeyTypes, expiresAt : {Null, Some(t - 1), Some(t + 1)},
            permissions : Permissions, allowedDomains : DomainLists] :
     (dto.permissions = {}) = (dto.allowedDomains = {})}

LiveDtos(t) == {dto \in CreateDtos(t) : dto.type = "live"}

NoDto == [type |-> "live", expiresAt |-> Null, permissions |-> {}, allowedDomains |-> {}]

\* apiKeyRepository.create({...}) in ApiKeysService.create
NewApiKey(id, key, u, dto) ==
  [id |-> id, keyHash |-> hashKey(key), type |-> dto.type, userId |-> u,
   permissions |-> dto.permissions, allowedDomains |-> dto.allowedDomains,
   expiresAt |-> dto.expiresAt, isActive |-> TRUE, isRevoked |-> FALSE,
   revokedAt |-> Null, lastUsedAt |-> Null, rotationCount |-> 0]

NoKey == NewApiKey(0, EmptyKey, "none", NoDto)

\* repository.save(entity): the row with the entity's id takes the values
\* of the entity in memory; a row that is gone is inserted again.
SaveKey(rows, e) == {r \in rows : r.id # e.id} \cup {e}

\* isDomainAllowed: "For now, allow all domains".
isDomainAllowed(userAgent, allowedDomains) == TRUE

\* request.headers["user-agent"] as the guards pass it on; "" when the
\* header is absent (requestMetadata?.userAgent || "").
NoUserAgent == ""
UserAgents == {NoUserAgent, "example.com", "other.test"}

NoKLoc == [op |-> "none", user |-> "none", key |-> EmptyKey, row |-> NoKey,
           dto |-> NoDto, new |-> EmptyKey, afterRevoke |-> FALSE, fresh |-> FALSE,
           userAgent |-> NoUserAgent]

NoKDone == [op |-> "none", id |-> 0, key |-> EmptyKey, ok |-> FALSE, reason |-> "none",
            user |-> "none", afterRevoke |-> FALSE, fresh |-> FALSE,
            userAgent |-> NoUserAgent]

KeyInit ==
  /\ apiKeys = {}
  /\ enableSandboxKeys \in BOOLEAN
  /\ sandboxEnabled \in BOOLEAN
  /\ kpc = [p \in Procs |-> "idle"]
  /\ kloc = [p \in Procs |-> NoKLoc]
  /\ kdone = NoKDone
  /\ createdKeys = {}
  /\ everRevoked = {}
  /\ keyCalls = 0

\* Sandbox keys enabled by configuration (the default) and by the plan.
SandboxDefault == enableSandboxKeys /\ sandboxEnabled

KMayStart(p) ==
  /\ kpc[p] = "idle"
  /\ overlap \/ \A q \in Procs : kpc[q] = "idle"
  /\ keyCalls < MaxKeyCalls

KeysIdle == \A p \in Procs : kpc[p] = "idle"

KFrame == UNCHANGED <<authVars, quotaVars, acctVars, adminVars, enableSandboxKeys>>

KGoto(p, to, l) ==
  /\ kpc' = [kpc EXCEPT ![p] = to]
  /\ kloc' = [kloc EXCEPT ![p] = l]

\* The call returns (ok) or throws / answers isValid: false (~ok).
KReturn(p, op, id, key, ok, reason, user) ==
  /\ kpc' = [kpc EXCEPT ![p] = "idle"]
  /\ kloc' = [kloc EXCEPT ![p] = NoKLoc]
  /\ kdone' = [op |-> op, id |-> id, key |-> key, ok |-> ok, reason |-> reason,
               user |-> user, afterRevoke |-> kloc[p].afterRevoke,
               fresh |-> kloc[p].fresh, userAgent |-> kloc[p].userAgent]

KStarted == keyCalls' = keyCalls + 1

(***************************************************************************)
(* ApiKeysService.create.                                                  *)
(***************************************************************************)
\* Only the global switch is consulted.
CreateRejectionGlobalOnly(dto) ==
  IF dto.type = "test" /\ ~enableSandboxKeys THEN "Sandbox API keys are not enabled"
  ELSE "none"

\* The outcome of the checks between userRepository.findOne and the save.
CreateRejection(dto) ==
  IF dto.type = "test" /\ ~enableSandboxKeys THEN "Sandbox API keys are not enabled"
  ELSE IF ~sandboxEnabled /\ dto.type = "test"
       THEN "Your plan does not support sandbox API keys"
  ELSE "none"

nextKeyId == Cardinality(createdKeys) + 1

\* userRepository.findOne, the sandbox checks, key generation.
CreateStart(p, u, dto) ==
  /\ KMayStart(p)
  /\ nextKeyId <= MaxKeys
  /\ KStarted
  /\ IF CreateRejection(dto) # "none"
     THEN /\ kpc' = [kpc EXCEPT ![p] = "idle"]
          /\ kloc' = [kloc EXCEPT ![p] = NoKLoc]
          /\ kdone' = [NoKDone EXCEPT !.op = "create", !.reason = CreateRejection(dto),
                                      !.user = u]
     ELSE /\ KGoto(p, "c_save", [NoKLoc EXCEPT !.op = "create", !.user = u, !.dto = dto])
          /\ UNCHANGED kdone
  /\ UNCHANGED <<apiKeys, sandboxEnabled, createdKeys, everRevoked>>
  /\ KFrame

\* apiKeyRepository.save(apiKey); the raw key is returned.
CreateSave(p) ==
  /\ kpc[p] = "c_save"
  /\ nextKeyId <= MaxKeys
  /\ LET key == generateApiKey(kloc[p].dto.type, nextKeyId)
     IN  /\ apiKeys' = SaveKey(apiKeys, NewApiKey(nextKeyId, key, kloc[p].user, kloc[p].dto))
         /\ createdKeys' = createdKeys \cup {key}
         /\ KReturn(p, "create", nextKeyId, key, TRUE, "none", kloc[p].user)
  /\ UNCHANGED <<sandboxEnabled, everRevoked, keyCalls>>
  /\ KFrame

(***************************************************************************)
(* ApiKeysService.validateApiKey and validateApiKeyById.                   *)
(***************************************************************************)
FindByHash(h) == {r \in apiKeys : r.keyHash = h}
FindById(id) == {r \in apiKeys : r.id = id}

\* The revoked flag tested before the active flag.
ValidationFailureRevokedFirst(found, inactiveReason, userAgent) ==
  IF found = {} THEN "API key not found"
  ELSE LET apiKey == Val(found)
       IN  IF apiKey.isRevoked THEN "API key has been revoked"
           ELSE IF ~apiKey.isActive THEN inactiveReason
           ELSE IF apiKey.expiresAt # Null /\ Val(apiKey.expiresAt) < now
                THEN "API key has expired"
           ELSE IF ~userActive[apiKey.userId] THEN "User account is deactivated"
           ELSE IF apiKey.allowedDomains # {}
                   /\ ~isDomainAllowed(userAgent, apiKey.allowedDomains)
                THEN "API key access denied from this domain"
           ELSE "none"

\* The checks on the row findOne returned (found = {} when it returned
\* null), in the order of the code; "none" when all pass.
ValidationFailure(found, inactiveReason, userAgent) ==
  IF found = {} THEN "API key not found"
  ELSE LET apiKey == Val(found)
       IN  IF ~apiKey.isActive THEN inactiveReason
           ELSE IF apiKey.isRevoked THEN "API key has been revoked"
           ELSE IF apiKey.expiresAt # Null /\ Val(apiKey.expiresAt) < now
                THEN "API key has expired"
           ELSE IF ~userActive[apiKey.userId] THEN "User account is deactivated"
           ELSE IF apiKey.allowedDomains # {}
                   /\ ~isDomainAllowed(userAgent, apiKey.allowedDomains)
                THEN "API key access denied from this domain"
           ELSE "none"

\* From findOne to the last check; a passing key goes on to the save.
Validate(p, op, key, found, inactiveReason, userAgent) ==
  LET reason == ValidationFailure(found, inactiveReason, userAgent)
      id == IF found = {} THEN 0 ELSE Val(found).id
      l == [NoKLoc EXCEPT !.op = op, !.key = key,
                          !.afterRevoke = (id \in everRevoked),
                          !.fresh = (kdone.op = "create" /\ kdone.ok /\ kdone.key = key),
                          !.userAgent = userAgent]
  IN  IF reason # "none"
      THEN /\ kpc' = [kpc EXCEPT ![p] = "idle"]
           /\ kloc' = [kloc EXCEPT ![p] = NoKLoc]
           /\ kdone' = [op |-> op, id |-> id, key |-> key, ok |-> FALSE,
                        reason |-> reason, user |-> "none",
                        afterRevoke |-> l.afterRevoke, fresh |-> l.fresh,
                        userAgent |-> userAgent]
      ELSE /\ KGoto(p, "v_save", [l EXCEPT !.row = [Val(found) EXCEPT !.lastUsedAt = Some(now)]])
           /\ UNCHANGED kdone

validateApiKey(p, key, userAgent) ==
  /\ KMayStart(p)
  /\ KStarted
  /\ IF key = EmptyKey \/ ~keyFormatRegex(key)
     THEN /\ kpc' = [kpc EXCEPT ![p] = "idle"]
          /\ kloc' = [kloc EXCEPT ![p] = NoKLoc]
          /\ kdone' = [NoKDone EXCEPT !.op = "validateApiKey", !.key = key,
                                      !.userAgent = userAgent,
                                      !.reason = "Invalid API key format"]
     ELSE Validate(p, "validateApiKey", key, FindByHash(hashKey(key)), "API key is disabled",
                   userAgent)
  /\ UNCHANGED <<apiKeys, sandboxEnabled, createdKeys, everRevoked>>
  /\ KFrame

\* id 0 stands for the empty id.
validateApiKeyById(p, id, userAgent) ==
  /\ KMayStart(p)
  /\ KStarted
  /\ IF id = 0
     THEN /\ kpc' = [kpc EXCEPT ![p] = "idle"]
          /\ kloc' = [kloc EXCEPT ![p] = NoKLoc]
          /\ kdone' = [NoKDone EXCEPT !.op = "validateApiKeyById",
                                      !.userAgent = userAgent,
                                      !.reason = "API key ID is required"]
     ELSE Validate(p, "validateApiKeyById", EmptyKey, FindById(id), "API key is inactive",
                   userAgent)
  /\ UNCHANGED <<apiKeys, sandboxEnabled, createdKeys, everRevoked>>
  /\ KFrame

\* apiKeyRepository.save(apiKey) with lastUsedAt set; isValid: true.
ValidateSave(p) ==
  /\ kpc[p] = "v_save"
  /\ apiKeys' = SaveKey(apiKeys, kloc[p].row)
  /\ KReturn(p, kloc[p].op, kloc[p].row.id, kloc[p].key, TRUE, "none", kloc[p].row.userId)
  /\ UNCHANGED <<sandboxEnabled, createdKeys, everRevoked, keyCalls>>
  /\ KFrame

(***************************************************************************)
(* update, remove, revokeApiKey, adminRevokeApiKey: findOne, then a write  *)
(* of the entity in memory.                                                *)
(***************************************************************************)
\* A lookup that leaves revoked keys out, as findAllByUser does.
findOneUnrevoked(id, u) == {r \in apiKeys : r.id = id /\ r.userId = u /\ ~r.isRevoked}

\* A lookup by id that does not look at the owner.
findOneOfAnyUser(id, u) == {r \in apiKeys : r.id = id}

\* findOne(id, userId); adminRevokeApiKey looks up by id alone.
findOne(id, u) == {r \in apiKeys : r.id = id /\ r.userId = u}

\* A subject that owns no key.
Stranger == "u2"
Callers == Users \cup {Stranger}

NotFound(p, op, id, u) ==
  /\ kpc' = [kpc EXCEPT ![p] = "idle"]
  /\ kloc' = [kloc EXCEPT ![p] = NoKLoc]
  /\ kdone' = [NoKDone EXCEPT !.op = op, !.id = id, !.reason = "API key not found",
                              !.user = u, !.afterRevoke = (id \in everRevoked)]

\* GET /api-keys/:id: findOne called by the controller.
GetOne(p, id, u) ==
  /\ KMayStart(p)
  /\ KStarted
  /\ IF findOne(id, u) = {}
     THEN NotFound(p, "findOne", id, u)
     ELSE /\ kpc' = [kpc EXCEPT ![p] = "idle"]
          /\ kloc' = [kloc EXCEPT ![p] = NoKLoc]
          /\ kdone' = [NoKDone EXCEPT !.op = "findOne", !.id = id, !.ok = TRUE, !.user = u,
                                      !.afterRevoke = (id \in everRevoked)]
  /\ UNCHANGED <<apiKeys, sandboxEnabled, createdKeys, everRevoked>>
  /\ KFrame

\* isActive = {} when the DTO leaves it undefined.
update(p, id, u, isActive) ==
  /\ KMayStart(p)
  /\ KStarted
  /\ IF findOne(id, u) = {}
     THEN NotFound(p, "update", id, u)
     ELSE /\ KGoto(p, "u_save",
                   [NoKLoc EXCEPT !.op = "update", !.user = u,
                      !.row = IF isActive = {} THEN Val(findOne(id, u))
                              ELSE [Val(findOne(id, u)) EXCEPT !.isActive = Val(isActive)]])
          /\ UNCHANGED kdone
  /\ UNCHANGED <<apiKeys, sandboxEnabled, createdKeys, everRevoked>>
  /\ KFrame

UpdateSave(p) ==
  /\ kpc[p] = "u_save"
  /\ apiKeys' = SaveKey(apiKeys, kloc[p].row)
  /\ KReturn(p, "update", kloc[p].row.id, EmptyKey, TRUE, "none", kloc[p].user)
  /\ UNCHANGED <<sandboxEnabled, createdKeys, everRevoked, keyCalls>>
  /\ KFrame

remove(p, id, u) ==
  /\ KMayStart(p)
  /\ KStarted
  /\ IF findOne(id, u) = {}
     THEN NotFound(p, "remove", id, u)
     ELSE /\ KGoto(p, "d_remove",
                   [NoKLoc EXCEPT !.op = "remove", !.user = u, !.row = Val(findOne(id, u))])
          /\ UNCHANGED kdone
  /\ UNCHANGED <<apiKeys, sandboxEnabled, createdKeys, everRevoked>>
  /\ KFrame

\* apiKeyRepository.remove(apiKey): DELETE by primary key.
RemoveRow(p) ==
  /\ kpc[p] = "d_remove"
  /\ apiKeys' = {r \in apiKeys : r.id # kloc[p].row.id}
  /\ KReturn(p, "remove", kloc[p].row.id, EmptyKey, TRUE, "none", kloc[p].user)
  /\ UNCHANGED <<sandboxEnabled, createdKeys, everRevoked, keyCalls>>
  /\ KFrame

\* isActive = false; isRevoked = true; revokedAt = new Date()
Revoked(row) == [row EXCEPT !.isActive = FALSE, !.isRevoked = TRUE, !.revokedAt = Some(now)]

revokeApiKey(p, id, u) ==
  /\ KMayStart(p)
  /\ KStarted
  /\ IF findOne(id, u) = {}
     THEN NotFound(p, "revokeApiKey", id, u)
     ELSE /\ KGoto(p, "r_save",
                   [NoKLoc EXCEPT !.op = "revokeApiKey", !.user = u,
                                  !.afterRevoke = (id \in everRevoked),
                                  !.row = Revoked(Val(findOne(id, u)))])
          /\ UNCHANGED kdone
  /\ UNCHANGED <<apiKeys, sandboxEnabled, createdKeys, everRevoked>>
  /\ KFrame

adminRevokeApiKey(p, id) ==
  /\ KMayStart(p)
  /\ KStarted
  /\ IF FindById(id) = {}
     THEN NotFound(p, "adminRevokeApiKey", id, "admin")
     ELSE /\ KGoto(p, "r_save",
                   [NoKLoc EXCEPT !.op = "adminRevokeApiKey", !.user = "admin",
                                  !.afterRevoke = (id \in everRevoked),
                                  !.row = Revoked(Val(FindById(id)))])
          /\ UNCHANGED kdone
  /\ UNCHANGED <<apiKeys, sandboxEnabled, createdKeys, everRevoked>>
  /\ KFrame

RevokeSave(p) ==
  /\ kpc[p] = "r_save"
  /\ apiKeys' = SaveKey(apiKeys, kloc[p].row)
  /\ everRevoked' = everRevoked \cup {kloc[p].row.id}
  /\ KReturn(p, kloc[p].op, kloc[p].row.id, EmptyKey, TRUE, "none", kloc[p].user)
  /\ UNCHANGED <<sandboxEnabled, createdKeys, keyCalls>>
  /\ KFrame

(***************************************************************************)
(* ApiKeysService.regenerateApiKey: revoke the old key, this.create with   *)
(* the old key's settings, then the rotation count on the old entity.      *)
(***************************************************************************)
\* createDto of regenerateApiKey
DtoOf(row) == [type |-> row.type, expiresAt |-> row.expiresAt,
               permissions |-> row.permissions, allowedDomains |-> row.allowedDomains]

regenerateApiKey(p, id, u) ==
  /\ KMayStart(p)
  /\ nextKeyId <= MaxKeys
  /\ KStarted
  /\ IF findOne(id, u) = {}
     THEN NotFound(p, "regenerateApiKey", id, u)
     ELSE /\ KGoto(p, "g_save_old",
                   [NoKLoc EXCEPT !.op = "regenerateApiKey", !.user = u,
                                  !.afterRevoke = (id \in everRevoked),
                                  !.row = Revoked(Val(findOne(id, u)))])
          /\ UNCHANGED kdone
  /\ UNCHANGED <<apiKeys, sandboxEnabled, createdKeys, everRevoked>>
  /\ KFrame

RegenerateSaveOld(p) ==
  /\ kpc[p] = "g_save_old"
  /\ apiKeys' = SaveKey(apiKeys, kloc[p].row)
  /\ everRevoked' = everRevoked \cup {kloc[p].row.id}
  /\ KGoto(p, "g_create", kloc[p])
  /\ UNCHANGED <<sandboxEnabled, kdone, createdKeys, keyCalls>>
  /\ KFrame

\* this.create up to its save; a rejection leaves as an HttpException.
RegenerateCreate(p) ==
  /\ kpc[p] = "g_create"
  /\ LET dto == DtoOf(kloc[p].row)
     IN  IF CreateRejection(dto) # "none"
         THEN KReturn(p, "regenerateApiKey", kloc[p].row.id, EmptyKey, FALSE,
                      CreateRejection(dto), kloc[p].user)
         ELSE /\ KGoto(p, "g_save_new", [kloc[p] EXCEPT !.dto = dto])
              /\ UNCHANGED kdone
  /\ UNCHANGED <<apiKeys, sandboxEnabled, createdKeys, everRevoked, keyCalls>>
  /\ KFrame

RegenerateSaveNew(p) ==
  /\ kpc[p] = "g_save_new"
  /\ nextKeyId <= MaxKeys
  /\ LET key == generateApiKey(kloc[p].dto.type, nextKeyId)
     IN  /\ apiKeys' = SaveKey(apiKeys, NewApiKey(nextKeyId, key, kloc[p].user, kloc[p].dto))
         /\ createdKeys' = createdKeys \cup {key}
         /\ KGoto(p, "g_count", [kloc[p] EXCEPT !.new = key])
  /\ UNCHANGED <<sandboxEnabled, kdone, everRevoked, keyCalls>>
  /\ KFrame

\* securityMetadata.rotationCount + 1, saved on the old entity.
RegenerateSaveCount(p) ==
  /\ kpc[p] = "g_count"
  /\ apiKeys' = SaveKey(apiKeys, [kloc[p].row EXCEPT !.rotationCount = @ + 1])
  /\ KReturn(p, "regenerateApiKey", kloc[p].row.id, kloc[p].new, TRUE, "none", kloc[p].user)
  /\ UNCHANGED <<sandboxEnabled, createdKeys, everRevoked, keyCalls>>
  /\ KFrame

\* PlansService.update on the subject's plan: sandboxEnabled is set.
updatePlan(sandbox) ==
  /\ sandboxEnabled # sandbox
  /\ sandboxEnabled' = sandbox
  /\ UNCHANGED <<apiKeys, kpc, kloc, kdone, createdKeys, everRevoked, keyCalls>>
  /\ KFrame

\* The subject is registered and verified; no POST /auth/logout was made.
Registered ==
  /\ userExists = [u \in Users |-> TRUE]
  /\ isEmailVerified = [u \in Users |-> TRUE]
  /\ enableEmailVerification = TRUE
  /\ emailVerifications = {}
  /\ endedSessions = {}

\* Nobody has signed up yet, under either setting of ENABLE_EMAIL_VERIFICATION.
Unregistered ==
  /\ userExists = [u \in Users |-> FALSE]
  /\ isEmailVerified = [u \in Users |-> FALSE]
  /\ enableEmailVerification \in BOOLEAN
  /\ emailVerifications = {}
  /\ endedSessions = {}

\* The Redis server answers / is down.
CacheServes == cacheUp = TRUE
CacheDown == cacheUp = FALSE

\* The gateway as it is usually deployed.
Settled == Registered /\ CacheServes /\ AdminInit

\* Request handlers run as independently scheduled tasks: calls overlap.
Init == overlap = TRUE /\ AuthInit /\ QuotaInit /\ KeyInit /\ SandboxDefault /\ Settled

\* A single client that awaits each call before the next.
InitSeq == overlap = FALSE /\ AuthInit /\ QuotaInit /\ KeyInit /\ SandboxDefault /\ Settled

\* One deployment: no plan limits, both enforcement flags at their default.
DefaultDeployment ==
  /\ plan = [dailyRequestLimit |-> Null, monthlyRequestLimit |-> Null]
  /\ enforceDailyQuota
  /\ enforceMonthlyQuota
  /\ ledgerPrior = 0

InitSessions == Init /\ DefaultDeployment

InitSessionsSeq == InitSeq /\ DefaultDeployment

\* The API key service under every setting of the two sandbox switches.
InitKeys ==
  overlap = TRUE /\ AuthInit /\ QuotaInit /\ DefaultDeployment /\ KeyInit /\ Settled

InitKeysSeq ==
  overlap = FALSE /\ AuthInit /\ QuotaInit /\ DefaultDeployment /\ KeyInit /\ Settled

\* Before the first signup.
InitSignup ==
  /\ overlap = TRUE
  /\ AuthInit /\ QuotaInit /\ DefaultDeployment /\ KeyInit /\ SandboxDefault
  /\ Unregistered /\ CacheServes /\ AdminInit

InitSignupSeq ==
  /\ overlap = FALSE
  /\ AuthInit /\ QuotaInit /\ DefaultDeployment /\ KeyInit /\ SandboxDefault
  /\ Unregistered /\ CacheServes /\ AdminInit

\* The gateway with its Redis server down, calls made one after another.
InitCacheDown ==
  /\ overlap = FALSE
  /\ AuthInit /\ QuotaInit /\ KeyInit /\ SandboxDefault
  /\ Registered /\ CacheDown /\ AdminInit

InitPlainKeys == InitKeys /\ SandboxDefault

InitPlainKeysSeq == InitKeysSeq /\ SandboxDefault

KeyIds == 1..MaxKeys

\* Creation under the sandbox switches.
CreateNext ==
  \/ \E p \in Procs, u \in Users, dto \in CreateDtos(now) : CreateStart(p, u, dto)
  \/ \E p \in Procs : CreateSave(p)
  \/ \E b \in BOOLEAN : updatePlan(b)

\* The owner's and the administrator's calls on existing keys.
LifecycleNext ==
  \/ CreateNext
  \/ \E p \in Procs, id \in KeyIds, u \in Users, a \in {{}, {TRUE}, {FALSE}} :
        update(p, id, u, a)
  \/ \E p \in Procs, id \in KeyIds, u \in Users : remove(p, id, u)
  \/ \E p \in Procs, id \in KeyIds, u \in Users : revokeApiKey(p, id, u)
  \/ \E p \in Procs, id \in KeyIds : adminRevokeApiKey(p, id)
  \/ \E p \in Procs, id \in KeyIds, u \in Users : regenerateApiKey(p, id, u)
  \/ \E p \in Procs : UpdateSave(p)
  \/ \E p \in Procs : RemoveRow(p)
  \/ \E p \in Procs : RevokeSave(p)
  \/ \E p \in Procs : RegenerateSaveOld(p)
  \/ \E p \in Procs : RegenerateCreate(p)
  \/ \E p \in Procs : RegenerateSaveNew(p)
  \/ \E p \in Procs : RegenerateSaveCount(p)

\* Validation of keys that are created, disabled, revoked, and whose owner
\* is deactivated.
ValidateNext ==
  \/ \E p \in Procs, u \in Users, dto \in LiveDtos(now) : CreateStart(p, u, dto)
  \/ \E p \in Procs : CreateSave(p)
  \/ \E p \in Procs, key \in createdKeys \cup MalformedKeys \cup {UnknownKey} :
        validateApiKey(p, key, NoUserAgent)
  \/ \E p \in Procs, id \in KeyIds \cup {0} : validateApiKeyById(p, id, NoUserAgent)
  \/ \E p \in Procs : ValidateSave(p)
  \/ \E p \in Procs, id \in KeyIds, u \in Users, a \in {{}, {TRUE}, {FALSE}} :
        update(p, id, u, a)
  \/ \E p \in Procs : UpdateSave(p)
  \/ \E p \in Procs, id \in KeyIds, u \in Users : revokeApiKey(p, id, u)
  \/ \E p \in Procs : RevokeSave(p)
  \/ \E u \in Users : deactivateUser(u)
  \/ \E u \in Users : activateUser(u)

\* One plain live key; validation, update, revocation and regeneration of it.
PlainDto == [type |-> "live", expiresAt |-> Null, permissions |-> {}, allowedDomains |-> {}]

RevivalNext ==
  \/ \E p \in Procs, u \in Users : CreateStart(p, u, PlainDto)
  \/ \E p \in Procs : CreateSave(p)
  \/ \E p \in Procs, key \in createdKeys : validateApiKey(p, key, NoUserAgent)
  \/ \E p \in Procs, id \in KeyIds : validateApiKeyById(p, id, NoUserAgent)
  \/ \E p \in Procs : ValidateSave(p)
  \/ \E p \in Procs, id \in KeyIds, u \in Users, a \in {{}, {TRUE}, {FALSE}} :
        update(p, id, u, a)
  \/ \E p \in Procs : UpdateSave(p)
  \/ \E p \in Procs, id \in KeyIds, u \in Users : revokeApiKey(p, id, u)
  \/ \E p \in Procs, id \in KeyIds : adminRevokeApiKey(p, id)
  \/ \E p \in Procs : RevokeSave(p)
  \/ \E p \in Procs, id \in KeyIds, u \in Users : regenerateApiKey(p, id, u)
  \/ \E p \in Procs : RegenerateSaveOld(p)
  \/ \E p \in Procs : RegenerateCreate(p)
  \/ \E p \in Procs : RegenerateSaveNew(p)
  \/ \E p \in Procs : RegenerateSaveCount(p)

\* Keys with and without a domain allowlist, validated by requests that
\* carry different User-Agent headers.
DomainNext ==
  \/ \E p \in Procs, u \in Users, dto \in LiveDtos(now) : CreateStart(p, u, dto)
  \/ \E p \in Procs : CreateSave(p)
  \/ \E p \in Procs, key \in createdKeys, userAgent \in UserAgents :
        validateApiKey(p, key, userAgent)
  \/ \E p \in Procs, id \in KeyIds, userAgent \in UserAgents :
        validateApiKeyById(p, id, userAgent)
  \/ \E p \in Procs : ValidateSave(p)

\* Keys of both types, with and without an expiry (in the past) and an
\* allowlist, validated by raw key and by id while
\* they are disabled, revoked and their owner is deactivated.
EquivalenceNext ==
  \/ \E p \in Procs, u \in Users,
          dto \in {d \in CreateDtos(now) : d.expiresAt \in {Null, Some(now - 1)}} :
        CreateStart(p, u, dto)
  \/ \E p \in Procs : CreateSave(p)
  \/ \E p \in Procs, key \in createdKeys, userAgent \in {NoUserAgent, "other.test"} :
        validateApiKey(p, key, userAgent)
  \/ \E p \in Procs, id \in KeyIds, userAgent \in {NoUserAgent, "other.test"} :
        validateApiKeyById(p, id, userAgent)
  \/ \E p \in Procs : ValidateSave(p)
  \/ \E p \in Procs, id \in KeyIds, u \in Users, a \in {{TRUE}, {FALSE}} :
        update(p, id, u, a)
  \/ \E p \in Procs : UpdateSave(p)
  \/ \E p \in Procs, id \in KeyIds, u \in Users : revokeApiKey(p, id, u)
  \/ \E p \in Procs : RevokeSave(p)
  \/ \E u \in Users : deactivateUser(u)
  \/ \E u \in Users : activateUser(u)

\* The calls that address a key by id, made by its owner and by a stranger.
OwnerNext ==
  \/ \E p \in Procs, u \in Users : CreateStart(p, u, PlainDto)
  \/ \E p \in Procs : CreateSave(p)
  \/ \E p \in Procs, id \in KeyIds, u \in Callers : GetOne(p, id, u)
  \/ \E p \in Procs, id \in KeyIds, u \in Callers, a \in {{}, {TRUE}, {FALSE}} :
        update(p, id, u, a)
  \/ \E p \in Procs, id \in KeyIds, u \in Callers : remove(p, id, u)
  \/ \E p \in Procs, id \in KeyIds, u \in Callers : revokeApiKey(p, id, u)
  \/ \E p \in Procs, id \in KeyIds, u \in Callers : regenerateApiKey(p, id, u)
  \/ \E p \in Procs : UpdateSave(p)
  \/ \E p \in Procs : RemoveRow(p)
  \/ \E p \in Procs : RevokeSave(p)
  \/ \E p \in Procs : RegenerateSaveOld(p)
  \/ \E p \in Procs : RegenerateCreate(p)
  \/ \E p \in Procs : RegenerateSaveNew(p)
  \/ \E p \in Procs : RegenerateSaveCount(p)

\* Every way a subject authenticates, under the admin's switch of isActive,
\* within one second; a session call and a key call are not in flight together.
InactiveNext ==
  \/ \E u \in Users : deactivateUser(u)
  \/ \E u \in Users : activateUser(u)
  \/ \E p \in Procs, u \in Users, pw \in Passwords : KeysIdle /\ login(p, u, pw)
  \/ \E p \in Procs, tok \in issued : KeysIdle /\ RefreshStart(p, tok)
  \/ \E p \in Procs : RefreshFindUser(p)
  \/ \E p \in Procs : RefreshSaveOld(p)
  \/ \E p \in Procs : RefreshSaveNew(p)
  \/ \E p \in Procs, u \in Users : KeysIdle /\ JwtStrategyValidate(p, u)
  \/ \E p \in Procs, u \in Users : AllIdle /\ CreateStart(p, u, PlainDto)
  \/ \E p \in Procs : CreateSave(p)
  \/ \E p \in Procs, key \in createdKeys : AllIdle /\ validateApiKey(p, key, NoUserAgent)
  \/ \E p \in Procs, id \in KeyIds : AllIdle /\ validateApiKeyById(p, id, NoUserAgent)
  \/ \E p \in Procs : ValidateSave(p)

KeysNext ==
  \/ LifecycleNext \/ ValidateNext \/ DomainNext \/ InactiveNext \/ OwnerNext
  \/ EquivalenceNext

SpecEquivalenceSeq == InitPlainKeysSeq /\ [][EquivalenceNext]_vars

SpecOwnerSeq == InitPlainKeysSeq /\ [][OwnerNext]_vars

SpecInactive == InitPlainKeys /\ [][InactiveNext]_vars

SpecInactiveSeq == InitPlainKeysSeq /\ [][InactiveNext]_vars

SpecDomainSeq == InitPlainKeysSeq /\ [][DomainNext]_vars

SpecCreateSeq == InitKeysSeq /\ [][CreateNext]_vars

SpecLifecycleSeq == InitKeysSeq /\ [][LifecycleNext]_vars

SpecValidateSeq == InitKeysSeq /\ [][ValidateNext]_vars

SpecRevival == InitPlainKeys /\ [][RevivalNext]_vars

SpecRevivalSeq == InitPlainKeysSeq /\ [][RevivalNext]_vars

\* The steps every quota call is made of.
UsageSteps ==
  \/ \E p \in Procs : GetDailyCounter(p)
  \/ \E p \in Procs : CountDaily(p)
  \/ \E p \in Procs : BackfillDaily(p)
  \/ \E p \in Procs : GetMonthlyCounter(p)
  \/ \E p \in Procs : CountMonthly(p)
  \/ \E p \in Procs : BackfillMonthly(p)

RequestSteps ==
  \/ \E p \in Procs, o \in ConvertOutcomes : Convert(p, o)
  \/ \E p \in Procs : IncrDaily(p)
  \/ \E p \in Procs : IncrMonthly(p)
  \/ \E p \in Procs : RecordSuccess(p)
  \/ \E p \in Procs : RecordFailed(p)

\* Billable requests with live and test credentials, and cache evictions.
QuotaNext ==
  \/ \E p \in Procs, type \in {"live", "test"} : StartRequest(p, type)
  \/ UsageSteps
  \/ RequestSteps
  \/ EvictDaily
  \/ EvictMonthly

\* Billable requests with live credentials only.
LiveNext ==
  \/ \E p \in Procs : StartRequest(p, "live")
  \/ UsageSteps
  \/ RequestSteps
  \/ EvictDaily
  \/ EvictMonthly

\* Direct calls of checkQuota, incrementUsage and recordUsage, no eviction.
CounterNext ==
  \/ \E p \in Procs, type \in {"live", "test"} : StartCheckQuota(p, type)
  \/ \E p \in Procs : StartIncrementUsage(p)
  \/ \E p \in Procs : recordUsage(p)
  \/ UsageSteps
  \/ \E p \in Procs : IncrDaily(p)
  \/ \E p \in Procs : IncrMonthly(p)

\* Direct calls of checkQuota with a live credential and of getQuotaStatus,
\* between calls that raise the usage.
StatusNext ==
  \/ \E p \in Procs : StartCheckQuota(p, "live")
  \/ \E p \in Procs : getQuotaStatus(p)
  \/ \E p \in Procs : StartIncrementUsage(p)
  \/ \E p \in Procs : recordUsage(p)
  \/ UsageSteps
  \/ \E p \in Procs : IncrDaily(p)
  \/ \E p \in Procs : IncrMonthly(p)

\* The same calls over a cache that loses keys.
StoreNext ==
  \/ CounterNext
  \/ EvictDaily
  \/ EvictMonthly

\* Direct calls of incrementUsage only.
IncrementNext ==
  \/ \E p \in Procs : StartIncrementUsage(p)
  \/ \E p \in Procs : IncrDaily(p)
  \/ \E p \in Procs : IncrMonthly(p)

SpecQuota == Init /\ [][QuotaNext]_vars

SpecQuotaSeq == InitSeq /\ [][QuotaNext]_vars

SpecLiveSeq == InitSeq /\ [][LiveNext]_vars

SpecCounterSeq == InitSeq /\ [][CounterNext]_vars

SpecStoreSeq == InitSeq /\ [][StoreNext]_vars

SpecCounter == Init /\ [][CounterNext]_vars

SpecStatusSeq == InitSeq /\ [][StatusNext]_vars

SpecIncrement == Init /\ [][IncrementNext]_vars

(***************************************************************************)
(* The session-token service.  Rotation: login and refreshTokens under the *)
(* clock and the admin.  Auth: with forgotPassword and resetPassword.      *)
(***************************************************************************)
RotationNext ==
  \/ Tick
  \/ \E u \in Users : deactivateUser(u)
  \/ \E u \in Users : activateUser(u)
  \/ \E p \in Procs, u \in Users, pw \in Passwords : login(p, u, pw)
  \/ \E p \in Procs, tok \in issued \cup {ForgedToken} : RefreshStart(p, tok)
  \/ \E p \in Procs : RefreshFindUser(p)
  \/ \E p \in Procs : RefreshSaveOld(p)
  \/ \E p \in Procs : RefreshSaveNew(p)
  \/ \E p \in Procs : RefreshStorageError(p)

ResetNext ==
  \/ \E u \in Users : forgotPassword(u)
  \/ \E p \in Procs, t \in 1..MaxResets, pw \in Passwords : ResetStart(p, t, pw)
  \/ \E p \in Procs : ResetFindUser(p)
  \/ \E p \in Procs : ResetSaveUser(p)
  \/ \E p \in Procs : ResetMarkUsed(p)
  \/ \E p \in Procs : ResetRevokeAll(p)

\* Sessions under password resets: the clock, login, refreshTokens, resetPassword.
SessionNext ==
  \/ Tick
  \/ \E p \in Procs, u \in Users, pw \in Passwords : login(p, u, pw)
  \/ \E p \in Procs, tok \in issued : RefreshStart(p, tok)
  \/ \E p \in Procs : RefreshFindUser(p)
  \/ \E p \in Procs : RefreshSaveOld(p)
  \/ \E p \in Procs : RefreshSaveNew(p)
  \/ ResetNext

AuthNext == RotationNext \/ ResetNext

\* Login, rotation and logout, overlapping.
LogoutNext ==
  \/ Tick
  \/ \E p \in Procs, u \in Users : login(p, u, userPassword[u])
  \/ \E p \in Procs, tok \in issued : RefreshStart(p, tok)
  \/ \E p \in Procs : RefreshFindUser(p)
  \/ \E p \in Procs : RefreshSaveOld(p)
  \/ \E p \in Procs : RefreshSaveNew(p)
  \/ \E p \in Procs, tok \in issued \cup {ForgedToken} : logout(p, tok)
  \/ \E p \in Procs : LogoutSave(p)

\* Sessions that end through POST /auth/logout.
EndpointNext ==
  \/ Tick
  \/ \E p \in Procs, u \in Users : login(p, u, userPassword[u])
  \/ \E p \in Procs, tok \in issued : RefreshStart(p, tok)
  \/ \E p \in Procs : RefreshFindUser(p)
  \/ \E p \in Procs : RefreshSaveOld(p)
  \/ \E p \in Procs : RefreshSaveNew(p)
  \/ \E p \in Procs, tok \in issued : PostAuthLogout(p, tok)

\* Accounts from signup on: signup, verifyEmail, login.
SignupNext ==
  \/ Tick
  \/ \E p \in Procs, u \in Users, pw \in Passwords : SignupStart(p, u, pw)
  \/ \E p \in Procs : SignupSaveUser(p)
  \/ \E p \in Procs : SignupSaveVerification(p)
  \/ \E p \in Procs : SignupWelcome(p)
  \/ \E p \in Procs, t \in VerificationTokens : VerifyStart(p, t)
  \/ \E p \in Procs : VerifyFindUser(p)
  \/ \E p \in Procs : VerifySaveUser(p)
  \/ \E p \in Procs : VerifyMarkUsed(p)
  \/ \E p \in Procs, u \in Users, pw \in Passwords : login(p, u, pw)

\* The same with the admin's switch on the subject.
AccountNext ==
  \/ SignupNext
  \/ \E u \in Users : deactivateUser(u)
  \/ \E u \in Users : activateUser(u)

\* Password resets under the clock.
ResetOnlyNext == Tick \/ ResetNext

\* Requests and direct quota calls while no Redis command is answered.
CacheDownNext ==
  \/ \E p \in Procs, type \in {"live", "test"} : StartRequest(p, type)
  \/ \E p \in Procs, type \in {"live", "test"} : StartCheckQuota(p, type)
  \/ \E p \in Procs : StartIncrementUsage(p)
  \/ \E p \in Procs, o \in ConvertOutcomes : Convert(p, o)
  \/ \E p \in Procs : CacheError(p)
  \/ \E p \in Procs : RecordFailed(p)

\* The admin's user management.
AdminNext ==
  \/ \E p \in Procs, op \in AdminOps, id \in Accounts : getUserById(p, op, id)
  \/ \E p \in Procs : AdminCount(p)
  \/ \E p \in Procs : AdminSave(p)
  \/ \E p \in Procs : AdminRemove(p)

Next ==
  \/ AuthNext \/ LogoutNext \/ QuotaNext \/ CounterNext \/ KeysNext
  \/ EndpointNext \/ AccountNext \/ CacheDownNext \/ AdminNext \/ StatusNext

Spec == Init /\ [][Next]_vars

\* Calls made one after another.
SpecRotationSeq == InitSessionsSeq /\ [][RotationNext]_vars

\* Calls that overlap at their awaits.
SpecRotation == InitSessions /\ [][RotationNext]_vars

SpecSession == InitSessions /\ [][SessionNext]_vars

SpecLogout == InitSessions /\ [][LogoutNext]_vars

SpecEndpoint == InitSessions /\ [][EndpointNext]_vars

SpecAccount == InitSignup /\ [][AccountNext]_vars

SpecSignupSeq == InitSignupSeq /\ [][SignupNext]_vars

SpecReset == InitSessions /\ [][ResetOnlyNext]_vars

SpecCacheDown == InitCacheDown /\ [][CacheDownNext]_vars

SpecAdminSeq == InitSessionsSeq /\ [][AdminNext]_vars

SpecAdmin == InitSessions /\ [][AdminNext]_vars

(***************************************************************************)
(* Claims about the session-token service.                                 *)
(***************************************************************************)
\* The rows other than r whose token is the one r.replacedByToken points to.
SuccessorRows(r) == {s \in refreshRows : s.id # r.id /\ {s.token} = r.replacedByToken}

\* C1: with calls made one after another, refreshTokens on a stored, non-revoked,
\* non-expired token of a subject that stays active succeeds (the repository being
\* available), and a token is redeemed successfully at most once.
C1_RotationChain ==
  /\ (done.op = "refresh" /\ done.valid
        /\ done.cause \notin {"User not found or inactive", "storage"})
       => done.outcome = "ok"
  /\ \A a, b \in successors : a[1] = b[1] => a = b

\* C2: of the refreshTokens calls that present the same token, overlapping or not,
\* at most one succeeds: no row gets more than one successor row.
C2_OneSuccessorUnderOverlap ==
  \A a, b \in successors : a[1] = b[1] => a = b

\* C3: whenever no call is in flight, a row whose replacedByToken is set has exactly
\* one other stored row carrying that token.
C3_RevokedRowHasSuccessor ==
  AllIdle => \A r \in refreshRows :
               r.replacedByToken # {} => Cardinality(SuccessorRows(r)) = 1

\* C4: every stored row of a session that was established before a resetPassword
\* that has returned is revoked.
C4_ResetRevokesOlderSessions ==
  \A r \in refreshRows : r.id \in preReset => r.isRevoked

(***************************************************************************)
(* Usage accounting and quota decisions.                                   *)
(***************************************************************************)
QuotaIdle == \A p \in Procs : qpc[p] = "idle"

\* The step on which a billable request that failed records itself.
FailedRequestRecorded == \E p \in Procs : RecordFailed(p)

\* C5: a billable request that fails (backend error, size or page limit,
\* quota denial) never increases the daily or monthly usage that
\* getDailyUsage / getMonthlyUsage report, from the cache or from the ledger.
C5_FailedRequestNotCounted ==
  [][FailedRequestRecorded =>
       /\ DailyUsage' <= DailyUsage
       /\ MonthlyUsage' <= MonthlyUsage]_vars

\* Direct incrementUsage calls that have passed their daily increment.
DailyIncrementsDone ==
  tally.increments + Cardinality({p \in Procs : qpc[p] = "incr_monthly"})

\* C6: overlapping incrementUsage calls, nothing else touching the counter,
\* leave the daily counter at its previous value plus one per call: no
\* increment is lost.
C6_NoLostIncrement ==
  /\ getCounter(cacheDaily) = DailyIncrementsDone
  /\ QuotaIdle => getCounter(cacheMonthly) = tally.increments

C6_Witness ==
  /\ QuotaIdle
  /\ tally.increments = MaxCalls
  /\ getCounter(cacheDaily) = MaxCalls

\* C7: within one day and one month the usage read for a subject never
\* decreases over incrementUsage calls, reads and cache evictions.
C7_UsageNeverDecreases ==
  [][/\ DailyUsage' >= DailyUsage
     /\ MonthlyUsage' >= MonthlyUsage]_vars

\* C8: live-key requests processed one at a time within a day, with cache
\* evictions between them: when daily enforcement is enabled, the requests
\* admitted and completed successfully never exceed a non-null
\* dailyRequestLimit.
C8_SequentialAdmissionBounded ==
  (enforceDailyQuota /\ plan.dailyRequestLimit # Null)
    => tally.succeeded <= Val(plan.dailyRequestLimit)

\* C8 as stated, whatever the enforcement flag.
C8_AsStated ==
  plan.dailyRequestLimit # Null => tally.succeeded <= Val(plan.dailyRequestLimit)

C8_Witness ==
  /\ enforceDailyQuota
  /\ plan.dailyRequestLimit = Some(MaxLimit)
  /\ tally.succeeded = MaxLimit
  /\ tally.evictions > 0
  /\ tally.calls = MaxCalls
  /\ QuotaIdle

\* The step on which a checkQuota call for a live credential returns.
LiveCheckReturns == \E p \in Procs : qloc[p].kind = "check" /\ qpc'[p] = "idle"

\* Daily limit set and enforced, no usage recorded today.
DailyLimitFresh ==
  /\ plan.dailyRequestLimit # Null
  /\ enforceDailyQuota
  /\ ledgerToday = 0

\* The monthly limit stands in the way of a request.
MonthlyLimitReached ==
  /\ enforceMonthlyQuota
  /\ plan.monthlyRequestLimit # Null
  /\ MonthlyUsage >= Val(plan.monthlyRequestLimit)

\* What C9 expects of checkQuota after u completed incrementUsage calls.
DailyVerdict(u, monthlyMatters) ==
  LET L == Val(plan.dailyRequestLimit)
  IN  /\ (u < L /\ ~(monthlyMatters /\ MonthlyLimitReached))
           => /\ quotaResult'.allowed
              /\ quotaResult'.remainingDaily = Some(L - u)
      /\ u = L
           => /\ ~quotaResult'.allowed
              /\ quotaResult'.reason = "Daily quota exceeded"

C9_WitnessAllowed ==
  /\ DailyLimitFresh
  /\ plan.dailyRequestLimit = Some(MaxLimit)
  /\ tally.increments = 1
  /\ quotaResult.allowed
  /\ quotaResult.remainingDaily = Some(MaxLimit - 1)

\* The step on which a checkQuota call for a test credential runs.
TestCheckReturns == \E p \in Procs : StartCheckQuota(p, "test")

\* C10: checkQuota for a test credential returns allowed with dailyUsed = 0,
\* monthlyUsed = 0 and every limit and remaining field null, for every plan
\* and every usage state.
C10_TestKeyExempt ==
  [][TestCheckReturns =>
       /\ quotaResult'.allowed
       /\ quotaResult'.dailyUsed = 0
       /\ quotaResult'.monthlyUsed = 0
       /\ quotaResult'.dailyLimit = Null
       /\ quotaResult'.monthlyLimit = Null
       /\ quotaResult'.remainingDaily = Null
       /\ quotaResult'.remainingMonthly = Null]_vars

\* The daily limit is 0 and usage exists, yet the answer is the exemption.
C10_Witness ==
  /\ plan.dailyRequestLimit = Some(0)
  /\ plan.monthlyRequestLimit = Some(0)
  /\ enforceDailyQuota
  /\ tally.increments > 0
  /\ ledgerToday > 0
  /\ quotaResult.allowed
  /\ quotaResult.dailyLimit = Null
  /\ quotaResult.dailyUsed = 0

\* A step of a billable request made with a test credential.
TestRequestStep ==
  \E p \in Procs : /\ qloc[p].kind = "request"
                   /\ qloc[p].type = "test"
                   /\ qpc'[p] # qpc[p]

\* C11: a conversion made with a test credential does not count toward
\* quota: the dailyUsed and monthlyUsed a live checkQuota would see are the
\* same after the test-key request as before it.
C11_TestRequestNotCounted ==
  [][TestRequestStep =>
       /\ DailyUsage' = DailyUsage
       /\ MonthlyUsage' = MonthlyUsage]_vars

\* C12: the live-key decision.  Daily first, then monthly, each only when
\* its flag is on and its limit non-null; a null or unenforced limit never
\* denies; a denial reports both remaining figures.
DailyBreached(d) ==
  enforceDailyQuota /\ plan.dailyRequestLimit # Null /\ d >= Val(plan.dailyRequestLimit)

MonthlyBreached(m) ==
  enforceMonthlyQuota /\ plan.monthlyRequestLimit # Null /\ m >= Val(plan.monthlyRequestLimit)

\* remainingX is reported (non-null) whenever limit X is non-null.
RemainingReported(res) ==
  /\ plan.dailyRequestLimit # Null => res.remainingDaily # Null
  /\ plan.monthlyRequestLimit # Null => res.remainingMonthly # Null

DecisionOrder(res, reportOnDenial) ==
  LET d == res.dailyUsed
      m == res.monthlyUsed
  IN  /\ DailyBreached(d) => (~res.allowed /\ res.reason = "Daily quota exceeded")
      /\ (~DailyBreached(d) /\ MonthlyBreached(m))
           => (~res.allowed /\ res.reason = "Monthly quota exceeded")
      /\ (~DailyBreached(d) /\ ~MonthlyBreached(m)) => res.allowed
      /\ (reportOnDenial /\ ~res.allowed) => RemainingReported(res)

C12_DecisionOrder ==
  [][LiveCheckReturns => DecisionOrder(quotaResult', FALSE)]_vars

\* C12 as stated, with both remaining figures reported on every denial.
C12_AsStated ==
  [][LiveCheckReturns => DecisionOrder(quotaResult', TRUE)]_vars

\* Both limits breached, and the denial names the daily one.
C12_Witness ==
  /\ enforceDailyQuota /\ enforceMonthlyQuota
  /\ plan.dailyRequestLimit = Some(1)
  /\ plan.monthlyRequestLimit = Some(1)
  /\ quotaResult.dailyUsed >= 1
  /\ quotaResult.monthlyUsed >= 1
  /\ ~quotaResult.allowed
  /\ quotaResult.reason = "Daily quota exceeded"

(***************************************************************************)
(* API keys: revocation, regeneration, validation, creation.               *)
(***************************************************************************)
ValidateOps == {"validateApiKey", "validateApiKeyById"}

\* C13: once a revoke, admin revoke or regenerate call has revoked a key, no
\* later validateApiKey or validateApiKeyById call answers isValid = true
\* for it.
C13_RevocationMonotone ==
  ~(kdone.op \in ValidateOps /\ kdone.ok /\ kdone.afterRevoke)

\* C14: in every state after a revoke call on a key has succeeded, the key
\* has isRevoked = true and isActive = false, whatever update calls follow.
C14_RevokeIrreversible ==
  \A k \in apiKeys : k.id \in everRevoked => (k.isRevoked /\ ~k.isActive)

\* The keys that replace the key a regenerate call was made on.
Replacements(key) == {k \in apiKeys : k.keyHash = hashKey(key)}

\* C15: regenerateApiKey on a key not yet revoked ends either with the old
\* key revoked and exactly one new active key with the old key's type,
\* permissions, allowed domains and expiry, or, when the creation fails, with
\* the old key unrevoked and no new key.
C15_RegenerateAtomic ==
  (KeysIdle /\ kdone.op = "regenerateApiKey" /\ ~kdone.afterRevoke
     /\ kdone.reason # "API key not found")
    => \A old \in FindById(kdone.id) :
         IF kdone.ok
         THEN /\ old.isRevoked
              /\ Cardinality(Replacements(kdone.key)) = 1
              /\ \A k \in Replacements(kdone.key) :
                   k.isActive /\ ~k.isRevoked /\ DtoOf(k) = DtoOf(old)
         ELSE ~old.isRevoked

\* C16: a validateApiKey(k) that directly follows the create call that
\* returned k answers isValid = true with the creating subject (the owner
\* not having been deactivated meanwhile).
C16_FreshKeyValid ==
  (kdone.op = "validateApiKey" /\ kdone.fresh
     /\ kdone.reason # "User account is deactivated")
    => (kdone.ok /\ kdone.user \in Users)

\* The checks of validateApiKey in the order of the claim, each with the
\* reason it fails with.
ValidationChecks(key) ==
  LET found == FindByHash(hashKey(key))
      row == IF found = {} THEN NoKey ELSE Val(found)
  IN  << [fails |-> found = {}, reason |-> "API key not found"],
         [fails |-> ~row.isActive, reason |-> "API key is disabled"],
         [fails |-> row.isRevoked, reason |-> "API key has been revoked"],
         [fails |-> row.expiresAt # Null /\ Val(row.expiresAt) < now,
          reason |-> "API key has expired"],
         [fails |-> found # {} /\ ~userActive[row.userId],
          reason |-> "User account is deactivated"],
         [fails |-> row.allowedDomains # {}
                      /\ ~isDomainAllowed(NoUserAgent, row.allowedDomains),
          reason |-> "API key access denied from this domain"] >>

FailingChecks(key) ==
  {i \in 1..Len(ValidationChecks(key)) : ValidationChecks(key)[i].fails}

FirstFailing(key) ==
  CHOOSE i \in FailingChecks(key) : \A j \in FailingChecks(key) : i <= j

WellFormed(key) ==
  key.prefix = apiKeyPrefix /\ key.type \in {"live", "test"} /\ key.random \in HexRandoms

\* What C17 expects of the step on which validateApiKey(key) is called.
ValidationVerdict(p, key) ==
  IF ~WellFormed(key)
  THEN /\ kdone'.op = "validateApiKey" /\ ~kdone'.ok
       /\ kdone'.reason = "Invalid API key format"
       /\ apiKeys' = apiKeys
       /\ kpc'[p] = "idle"
  ELSE IF FailingChecks(key) # {}
  THEN /\ kdone'.op = "validateApiKey" /\ ~kdone'.ok
       /\ kdone'.reason = ValidationChecks(key)[FirstFailing(key)].reason
       /\ kpc'[p] = "idle"
  ELSE kpc'[p] = "v_save"

\* C17: validateApiKey checks format, existence by hash, active flag,
\* revoked flag, expiry, owner active and the domain allowlist in this order
\* and answers with the reason of the first check that fails; a malformed
\* key is rejected with no storage lookup or write.
C17_ValidationOrder ==
  [][\A p \in Procs, key \in createdKeys \cup MalformedKeys \cup {UnknownKey} :
       validateApiKey(p, key, NoUserAgent) => ValidationVerdict(p, key)]_vars

\* A key that is both disabled and revoked, expired, with its owner
\* deactivated: the answer is the first of the four reasons.
C17_Witness ==
  /\ kdone.op = "validateApiKey"
  /\ kdone.reason = "API key is disabled"
  /\ \E k \in FindById(kdone.id) :
       /\ ~k.isActive /\ k.isRevoked
       /\ k.expiresAt # Null /\ Val(k.expiresAt) < now
       /\ ~userActive[k.userId]

\* C18: revokeApiKey on a key that is already revoked succeeds again and
\* leaves the key revoked, as the first call did.
C18_RevokeTwice ==
  (KeysIdle /\ kdone.op = "revokeApiKey" /\ FindById(kdone.id) # {})
    => /\ kdone.ok
       /\ \A k \in FindById(kdone.id) : k.isRevoked

C18_Witness ==
  /\ KeysIdle
  /\ kdone.op = "revokeApiKey" /\ kdone.afterRevoke /\ kdone.ok
  /\ \E k \in FindById(kdone.id) : k.isRevoked

SandboxRefused(dto) == dto.type = "test" /\ (~enableSandboxKeys \/ ~sandboxEnabled)

\* What C19 expects of the step on which create is called.
CreateVerdict(p, dto) ==
  IF SandboxRefused(dto)
  THEN /\ kdone'.op = "create" /\ ~kdone'.ok
       /\ kdone'.reason \in {"Sandbox API keys are not enabled",
                             "Your plan does not support sandbox API keys"}
       /\ apiKeys' = apiKeys
       /\ kpc'[p] = "idle"
  ELSE kpc'[p] = "c_save"

\* C19: create refuses a test key whenever sandbox keys are disabled
\* globally or by the subject's plan, and stores no row; a live key is
\* created whatever the two switches say.
C19_SandboxSwitches ==
  [][/\ \A p \in Procs, u \in Users, dto \in CreateDtos(now) :
          CreateStart(p, u, dto) => CreateVerdict(p, dto)
     /\ (\E p \in Procs : CreateSave(p))
          => (kdone'.ok /\ Cardinality(apiKeys') = Cardinality(apiKeys) + 1)]_vars

\* A refusal by the plan alone, and nothing stored.
C19_Witness ==
  /\ enableSandboxKeys /\ ~sandboxEnabled
  /\ kdone.op = "create" /\ ~kdone.ok
  /\ kdone.reason = "Your plan does not support sandbox API keys"
  /\ apiKeys = {}

(***************************************************************************)
(* Logout.                                                                 *)
(***************************************************************************)
LogoutTokens == issued \cup {ForgedToken}

\* logout is called: with no matching row it returns success at once and
\* writes nothing; with a row (revoked already or not) it goes on to the save.
LogoutCalled ==
  \A p \in Procs, tok \in LogoutTokens :
    logout(p, tok) =>
      IF \E r \in refreshRows : r.token = Sha256(tok)
      THEN pc'[p] = "lo_save"
      ELSE /\ done'.op = "logout" /\ done'.outcome = "ok"
           /\ refreshRows' = refreshRows

\* logout returns: success, and the matching row is revoked.
LogoutReturned ==
  \A p \in Procs :
    LogoutSave(p) =>
      /\ done'.op = "logout" /\ done'.outcome = "ok"
      /\ \E r \in refreshRows' : r.token = Sha256(loc[p].tok) /\ r.isRevoked

\* A revoked row stays, and stays revoked.
RevokedRowsStay ==
  \A r \in refreshRows :
    r.isRevoked => \E r2 \in refreshRows' : r2.id = r.id /\ r2.token = r.token /\ r2.isRevoked

\* refreshTokens called with the token of a revoked row is refused.
RevokedTokenRefused ==
  \A p \in Procs, tok \in LogoutTokens :
    (RefreshStart(p, tok) /\ \E r \in refreshRows : r.token = Sha256(tok) /\ r.isRevoked)
      => /\ done'.op = "refresh" /\ done'.outcome = "unauthorized"
         /\ pc'[p] = "idle"
         /\ refreshRows' = refreshRows

C21_EndpointLogoutRevokes ==
  \A tok \in endedSessions : FindStoredToken(tok) = {}

\* C22: every refreshTokens call that fails, whatever made it fail (bad
\* signature or expired JWT, no unrevoked row, expired row, missing or
\* inactive subject, storage error), reaches the caller as the one
\* UnauthorizedException "Invalid or expired refresh token".
C22_RefreshFailuresCollapse ==
  (done.op = "refresh" /\ done.outcome # "ok") =>
    /\ done.outcome = "unauthorized"
    /\ done.message = "Invalid or expired refresh token"

\* A failing call whose own exception named the inactive subject.
C22_Witness ==
  /\ done.op = "refresh"
  /\ done.outcome = "unauthorized"
  /\ done.cause = "User not found or inactive"
  /\ done.message = "Invalid or expired refresh token"

\* C23: a login that is refused gives the caller the same message whatever
\* the cause (unknown email, wrong password, deactivated subject, unverified
\* email): the message of the refusal for an unknown email.
C23_LoginFailuresUniform ==
  (done.op = "login" /\ done.outcome = "unauthorized") =>
    done.message = "Invalid credentials"

\* The rows a step adds to table refresh_tokens.
AddedRows == refreshRows' \ refreshRows

\* What a login by u with password pw must satisfy on the step it returns on.
LoginContract(u, pw) ==
  IF done'.outcome = "ok"
  THEN /\ userExists[u]
       /\ userActive[u]
       /\ enableEmailVerification => isEmailVerified[u]
       /\ pw = userPassword[u]
       /\ refreshRows \subseteq refreshRows'
       /\ Cardinality(AddedRows) = 1
       /\ \A r \in AddedRows :
            /\ r.token = Sha256(generateRefreshToken(u, now))
            /\ r.token # generateRefreshToken(u, now)
            /\ r.userId = u
            /\ ~r.isRevoked
  ELSE refreshRows' = refreshRows

\* C24: login returns tokens only if the subject exists, is active, is
\* email-verified whenever verification is enabled, and the password is the
\* stored one; a successful login adds exactly one unrevoked refresh-token
\* row holding the hash, not the raw value, of the token it returns, and a
\* failed login adds none.
C24_LoginIssuesOneRow ==
  [][\A p \in Procs, u \in Users, pw \in Passwords :
       login(p, u, pw) => LoginContract(u, pw)]_vars

\* A login has succeeded with verification enabled and left its row.
C24_Witness ==
  /\ done.op = "login"
  /\ done.outcome = "ok"
  /\ enableEmailVerification
  /\ \E r \in refreshRows : r.userId = "u1" /\ ~r.isRevoked

\* The verification token issued for u has been redeemed by a verifyEmail call.
VerifiedByToken(u) == \E v \in emailVerifications : v.userId = u /\ v.isUsed

\* A login of u succeeds on this step.
LoginSucceeds(u) ==
  /\ \E p \in Procs, pw \in Passwords : login(p, u, pw)
  /\ done'.outcome = "ok"

\* A signup of u with password pw returns on this step.
SignupReturns(u, pw) ==
  \E p \in Procs :
    /\ loc[p].email = u
    /\ loc[p].pw = pw
    /\ SignupSaveVerification(p) \/ SignupWelcome(p)

\* C25: with email verification enabled, a subject created by signup logs
\* in only after verifyEmail has succeeded with the token issued for it;
\* with verification disabled, a login with the signup password succeeds
\* in the state signup returns in.
C25_SignupToLogin ==
  [][\A u \in Users :
       /\ (enableEmailVerification /\ LoginSucceeds(u)) => VerifiedByToken(u)
       /\ \A pw \in Passwords :
            (~enableEmailVerification /\ SignupReturns(u, pw)) =>
              (LoginOutcome(u, pw) = "ok")']_vars

\* With verification enabled the subject has signed up, redeemed its token
\* and logged in.
C25_Witness ==
  /\ enableEmailVerification
  /\ VerifiedByToken("u1")
  /\ done.op = "login"
  /\ done.outcome = "ok"

\* With verification disabled the subject has signed up and logged in.
C25_WitnessDisabled ==
  /\ ~enableEmailVerification
  /\ userExists["u1"]
  /\ done.op = "login"
  /\ done.outcome = "ok"

\* A resetPassword call has already written a password with reset token t:
\* it has marked the token used, or it stands between its save of the user
\* and its return.
PasswordWrittenWith(t) ==
  \/ \E r \in passwordResets : r.token = t /\ r.isUsed
  \/ \E q \in Procs : pc[q] \in {"rp_mark_used", "rp_revoke"} /\ loc[q].reset = t

\* C26: a password-reset token is single-use: once a resetPassword call has
\* changed the password with token t, no other resetPassword call with t
\* writes the password, whether it comes later or runs at the same time.
C26_ResetTokenSingleUse ==
  [][\A p \in Procs :
       ResetSaveUser(p) => ~PasswordWrittenWith(loc[p].reset)]_vars

(***************************************************************************)
(* Claims about the request pipeline and the cache.                        *)
(***************************************************************************)
\* What a billable request has done when it records its success.
SuccessfulRequest == <<"pdf", "daily", "monthly">>

\* C27: a billable request that succeeds has called incrementUsage exactly
\* once, after the conversion returned and the size and page tests passed,
\* and that call raised the daily and the monthly counter (the two Redis
\* keys) by exactly one each.
C27_IncrementOncePerSuccess ==
  [][\A p \in Procs :
       /\ RecordSuccess(p) => qloc[p].events = SuccessfulRequest
       /\ (qloc[p].kind = "request" /\ IncrDaily(p)) =>
            /\ qloc[p].events = <<"pdf">>
            /\ getCounter(cacheDaily') = getCounter(cacheDaily) + 1
       /\ (qloc[p].kind = "request" /\ IncrMonthly(p)) =>
            /\ qloc[p].events = <<"pdf", "daily">>
            /\ getCounter(cacheMonthly') = getCounter(cacheMonthly) + 1]_vars

\* A request is about to record its success, both counters raised.
C27_Witness ==
  \E p \in Procs :
    /\ qpc[p] = "record_success"
    /\ qloc[p].events = SuccessfulRequest
    /\ getCounter(cacheDaily) >= 1
    /\ getCounter(cacheMonthly) >= 1

\* C28: on a cache miss getDailyUsage returns the number of ledger rows of
\* the subject for the day, and writes that number to the cache if and only
\* if it is greater than zero; after the write the next read is a cache hit
\* with that number.
C28_CacheMissFallback ==
  [][\A p \in Procs :
       /\ CountDaily(p) =>
            /\ cacheDaily = Null
            /\ qloc'[p].daily = CountToday
            /\ (CountToday > 0) <=> (qpc'[p] = "set_daily")
       /\ BackfillDaily(p) =>
            /\ qloc[p].daily > 0
            /\ cacheDaily' = Some(qloc[p].daily)
            /\ getCounter(cacheDaily') > 0
            /\ DailyUsage' = qloc[p].daily]_vars

\* A read has missed, counted the ledger's rows and written the count: the
\* cache holds it and no increment has touched the key.
C28_Witness ==
  /\ tally.increments = 0
  /\ ledgerToday > 0
  /\ cacheDaily = Some(ledgerToday)
  /\ \E p \in Procs : qpc[p] = "get_monthly" /\ qloc[p].daily = ledgerToday

\* C29: with every cache operation failing, checkQuota, getDailyUsage /
\* getMonthlyUsage and incrementUsage still complete from the ledger: no
\* billable request is sent to its catch block by the cache alone.
C29_CacheFailureNotFatal ==
  \A p \in Procs : qpc[p] = "record_failed" => qloc[p].error # "cache"

(***************************************************************************)
(* Claims about the admin's user management.                               *)
(***************************************************************************)
\* The administrators that are active.
ActiveAdmins == {r \in adminUsers : r.role = "admin" /\ r.isActive}

\* C30: from a state with an active admin, no sequence of promoteToAdmin,
\* demoteFromAdmin, deactivateUser, activateUser and deleteUser calls leaves
\* the system without an active admin.
C30_ActiveAdminExists == ActiveAdmins # {}

(***************************************************************************)
(* Claims about the rows of table api_keys.                                *)
(***************************************************************************)
\* The raw keys create or regenerateApiKey has returned whose row is gone.
DeletedKeys == {key \in createdKeys : FindByHash(hashKey(key)) = {}}

\* C31: no call the owner of a key can make (update, remove, revokeApiKey,
\* regenerateApiKey) deletes the key's row: while the owning account exists,
\* every key that was stored is still stored.
C31_KeyRowsKept == DeletedKeys = {}

\* C32: a validation that answers isValid = true for a key with a non-empty
\* allowedDomains list was made by a request from a domain on the list.
C32_DomainAllowlist ==
  (kdone.op \in ValidateOps /\ kdone.ok)
    => \A k \in FindById(kdone.id) :
         k.allowedDomains # {} => kdone.userAgent \in k.allowedDomains

(***************************************************************************)
(* Claims about getQuotaStatus.                                            *)
(***************************************************************************)
\* A percentage as C33 wants it: null for a null limit, else a number from 0 to 100.
PercentageInRange(x, limit) ==
  IF limit = Null THEN x = Null
  ELSE x # Null /\ x # NaN /\ Val(x) \in 0..100

\* C33: getQuotaStatus reports each percentage as a number from 0 to 100
\* for every non-null limit, a limit of 0 included, and as null for a null
\* limit.
C33_PercentagesInRange ==
  quotaStatus.called =>
    /\ PercentageInRange(quotaStatus.dailyPercentage, quotaStatus.dailyLimit)
    /\ PercentageInRange(quotaStatus.monthlyPercentage, quotaStatus.monthlyLimit)

(***************************************************************************)
(* Claims about what a validation writes.                                  *)
(***************************************************************************)
\* Every stored row is stored afterwards with at most lastUsedAt changed.
OnlyLastUsedAtWritten ==
  \A r \in apiKeys : \E r2 \in apiKeys' : r2 = [r EXCEPT !.lastUsedAt = r2.lastUsedAt]

\* C34: a validation writes nothing but lastUsedAt (and the user agent of
\* the security metadata) of the key, and nothing at all when it answers
\* isValid = false: a revocation or update that completes while the
\* validation is in flight is still in the row after both have completed.
C34_ValidationWritesOnlyLastUsed ==
  [][/\ \A p \in Procs : ValidateSave(p) => OnlyLastUsedAtWritten
     /\ (kdone' # kdone /\ kdone'.op \in ValidateOps /\ ~kdone'.ok)
          => apiKeys' = apiKeys]_vars

(***************************************************************************)
(* Claims about the backfill of the cache.                                 *)
(***************************************************************************)
\* C35: the backfill write of getDailyUsage / getMonthlyUsage discards no
\* increment that was committed after the read's cache lookup: the write
\* never leaves the counter below the value an increment has given it.
C35_BackfillKeepsIncrements ==
  [][\A p \in Procs :
       /\ BackfillDaily(p) => getCounter(cacheDaily') >= getCounter(cacheDaily)
       /\ BackfillMonthly(p) => getCounter(cacheMonthly') >= getCounter(cacheMonthly)]_vars

(***************************************************************************)
(* Claims about regenerateApiKey and about the owner of a key.             *)
(***************************************************************************)
\* C36: regenerateApiKey on a key that was revoked before the call started
\* fails and returns no new key.
C36_RegenerateRefusesRevoked ==
  ~(kdone.op = "regenerateApiKey" /\ kdone.afterRevoke /\ kdone.ok)

(***************************************************************************)
(* Claims about deactivated subjects.                                      *)
(***************************************************************************)
\* The call of process p ends on this step without authenticating anybody.
AuthRefused(p) == pc'[p] = "idle" /\ done'.outcome # "ok"
KeyRefused(p) == kpc'[p] = "idle" /\ ~kdone'.ok

\* C37: a login, refreshTokens, JwtStrategy.validate, validateApiKey or
\* validateApiKeyById call that reads a subject whose isActive is false
\* does not authenticate it, whatever tokens or keys the subject holds.
C37_InactiveNotAuthenticated ==
  [][\A p \in Procs :
       /\ \A u \in Users, pw \in Passwords :
            (login(p, u, pw) /\ ~userActive[u]) => AuthRefused(p)
       /\ (RefreshFindUser(p) /\ ~userActive[loc[p].tok.sub]) => AuthRefused(p)
       /\ \A u \in Users :
            (JwtStrategyValidate(p, u) /\ ~userActive[u]) => AuthRefused(p)
       /\ \A key \in createdKeys :
            (/\ validateApiKey(p, key, NoUserAgent)
             /\ \E r \in FindByHash(hashKey(key)) : ~userActive[r.userId])
              => KeyRefused(p)
       /\ \A id \in KeyIds :
            (/\ validateApiKeyById(p, id, NoUserAgent)
             /\ \E r \in FindById(id) : ~userActive[r.userId])
              => KeyRefused(p)]_vars

\* A deactivated subject with an unexpired, unrevoked refresh token and an
\* active key has been refused by refreshTokens and by a key validation.
C37_Witness ==
  /\ ~userActive["u1"]
  /\ done.op = "refresh" /\ done.cause = "User not found or inactive"
  /\ kdone.op \in ValidateOps /\ kdone.reason = "User account is deactivated"
  /\ \E r \in refreshRows : ~r.isRevoked /\ r.userId = "u1" /\ r.expiresAt > now
  /\ \E k \in apiKeys : k.isActive /\ ~k.isRevoked /\ k.userId = "u1"

\* The key exists and belongs to somebody else.
NotOwner(id, u) == FindById(id) # {} /\ \A r \in FindById(id) : r.userId # u

\* The call of process p ends on this step with NotFound and no row is written.
NotFoundUnchanged(p, op) ==
  /\ kpc'[p] = "idle"
  /\ kdone'.op = op /\ ~kdone'.ok /\ kdone'.reason = "API key not found"
  /\ apiKeys' = apiKeys

\* C38: findOne, update, remove, revokeApiKey and regenerateApiKey called
\* with a userId that does not own the key fail with NotFound and leave
\* every row of api_keys as it was.
C38_StrangerNotFound ==
  [][\A p \in Procs, id \in KeyIds, u \in Callers :
       NotOwner(id, u) =>
         /\ GetOne(p, id, u) => NotFoundUnchanged(p, "findOne")
         /\ \A a \in {{}, {TRUE}, {FALSE}} :
              update(p, id, u, a) => NotFoundUnchanged(p, "update")
         /\ remove(p, id, u) => NotFoundUnchanged(p, "remove")
         /\ revokeApiKey(p, id, u) => NotFoundUnchanged(p, "revokeApiKey")
         /\ regenerateApiKey(p, id, u) => NotFoundUnchanged(p, "regenerateApiKey")]_vars

\* A stranger's regenerateApiKey on a stored, active key was refused.
C38_Witness ==
  /\ kdone.op = "regenerateApiKey" /\ kdone.user = Stranger
  /\ kdone.reason = "API key not found"
  /\ \E r \in FindById(kdone.id) : r.userId \in Users /\ r.isActive /\ ~r.isRevoked

(***************************************************************************)
(* Claims about the two validation paths.                                  *)
(***************************************************************************)
\* The isValid each path gives in the present state.
ValidByKey(key, userAgent) ==
  /\ key # EmptyKey /\ keyFormatRegex(key)
  /\ ValidationFailure(FindByHash(hashKey(key)), "API key is disabled", userAgent) = "none"

ValidById(id, userAgent) ==
  /\ id # 0
  /\ ValidationFailure(FindById(id), "API key is inactive", userAgent) = "none"

\* The raw key and the id of one stored row.
SameCredential(key, id) == \E r \in apiKeys : r.keyHash = hashKey(key) /\ r.id = id

C40_RemainingAgrees ==
  quotaResult.reason # "no call" =>
    /\ quotaResult.remainingDaily
         = QuotaStatus(quotaResult.dailyUsed, quotaResult.monthlyUsed).remainingDaily
    /\ quotaResult.remainingMonthly
         = QuotaStatus(quotaResult.dailyUsed, quotaResult.monthlyUsed).remainingMonthly

====
